---- MODULE Spec2Model ----
(***************************************************************************)
(* A model of the electoral-redistricting pipeline: the settings           *)
(* generator (subsampler and bloc-parameter deriver), the artifact naming  *)
(* scheme, the election fan-out and the aggregator.                        *)
(*                                                                         *)
(* Text (paths, file names, candidate and bloc names) is a sequence of     *)
(* one-character strings, so that formatting, regular-expression decoding  *)
(* and glob matching are computed character by character as the code       *)
(* computes them.  Floating-point proportions are exact rationals          *)
(* <<numerator, denominator>>.                                             *)
(***************************************************************************)
EXTENDS Integers, Sequences, FiniteSets, TLC

VARIABLES
    config,        \* the run configuration (configs/<run>.json)
    population,    \* the population table: per-unit total and of-interest counts
    files,         \* the file system: path -> content
    dirs,          \* directories that exist
    pc,            \* position of the running stage
    impl,          \* which implementation of the stage runs
    dc_idx,        \* generate_settings: index into the district-count loop
    sample_idx,    \* generate_settings: enumerate() index into the trace
    interval,      \* generate_settings: subsample_interval
    other_group,   \* generate_settings: the bloc chosen as "other"
    written,       \* log of the settings files written: what each was written for
    error,         \* the exception that ended the stage, or "" for none
    fs_order,      \* the order in which the file system enumerates a directory
    mode_idx,      \* simulate_elections: index into the voter-model loop
    queue,         \* simulate_elections: all_profile_files of the current fan-out
    results,       \* simulate_elections: task index -> winners, for finished tasks
    rows,          \* summarize_results: the summary table written
    plan_rows,     \* summarize_results: the plan-level table
    duplicate_indx, \* generate_profiles: the replicate index of the outer loop
    profile_log,   \* generate_profiles: the profile files written, one entry per task
    call,          \* arguments of a function applied on its own
    result         \* its result

vars == <<config, population, files, dirs, pc, impl, dc_idx, sample_idx, interval,
          other_group, written, error, fs_order, mode_idx, queue, results, rows,
          plan_rows, duplicate_indx, profile_log, call, result>>

settings_vars == <<dc_idx, sample_idx, interval, other_group, written>>
election_vars == <<fs_order, mode_idx, queue, results>>
summary_vars == <<rows, plan_rows>>
profile_vars == <<duplicate_indx, profile_log>>
pure_vars == <<call, result>>

None == 0 - 1       \* Python None for an integer-valued result

(***************************************************************************)
(* Bounds of the model.                                                    *)
(***************************************************************************)
MaxChain == 4        \* chain_length ranges over 1..MaxChain
TScale == 2          \* turnout rates are k/TScale, k in 1..TScale
MaxReps == 2         \* replicate indices range over 0..MaxReps-1
MaxProfiles == 2     \* profile files per directory on disk
MaxWinners == 3      \* winners per election passed to count_focal_winners

(***************************************************************************)
(* Text helpers.                                                           *)
(***************************************************************************)
Digits == <<"0","1","2","3","4","5","6","7","8","9">>

IsDigit(c) == \E i \in 1..10 : Digits[i] = c

DigitVal(c) == (CHOOSE i \in 1..10 : Digits[i] = c) - 1

\* re.IGNORECASE on the letters the decoding patterns use
Lower(c) ==
    CASE c = "D" -> "d" [] c = "I" -> "i" [] c = "S" -> "s" [] c = "T" -> "t"
      [] c = "R" -> "r" [] c = "C" -> "c" [] c = "P" -> "p" [] c = "L" -> "l"
      [] c = "A" -> "a" [] c = "N" -> "n" [] c = "V" -> "v" [] OTHER -> c

RECURSIVE Concat(_)
Concat(parts) ==
    IF parts = <<>> THEN <<>> ELSE Head(parts) \o Concat(Tail(parts))

\* s[k..] starts with lit
HasPrefix(s, k, lit) ==
    /\ k >= 1
    /\ k + Len(lit) - 1 <= Len(s)
    /\ \A j \in 1..Len(lit) : s[k + j - 1] = lit[j]

\* s[k..] starts with lit, ignoring case
HasPrefixCI(s, k, lit) ==
    /\ k >= 1
    /\ k + Len(lit) - 1 <= Len(s)
    /\ \A j \in 1..Len(lit) : Lower(s[k + j - 1]) = lit[j]

\* decimal digits of n >= 0, most significant first
RECURSIVE DecStr(_)
DecStr(n) ==
    IF n < 10 THEN <<Digits[n + 1]>> ELSE DecStr(n \div 10) \o <<Digits[(n % 10) + 1]>>

RECURSIVE ZeroPad(_, _)
ZeroPad(s, w) == IF Len(s) >= w THEN s ELSE ZeroPad(<<"0">> \o s, w)

\* f"{n:0wd}" for n >= 0
Fmt0(n, w) == ZeroPad(DecStr(n), w)

\* index just past the run of digits starting at k
RECURSIVE DigitsEnd(_, _)
DigitsEnd(s, k) ==
    IF k <= Len(s) /\ IsDigit(s[k]) THEN DigitsEnd(s, k + 1) ELSE k

\* int(s[from..to-1])
RECURSIVE IntOf(_, _, _)
IntOf(s, from, to) ==
    IF to <= from THEN 0 ELSE IntOf(s, from, to - 1) * 10 + DigitVal(s[to - 1])

\* the regular expression [_-]? : index after the optional separator at k
OptSep(s, k) == IF k <= Len(s) /\ s[k] \in {"_", "-"} THEN k + 1 ELSE k

(***************************************************************************)
(* helpers.parse_plan_district_rep_from_path                               *)
(***************************************************************************)
\* (?:district[_-]?plan[_-]?|plan[_-]?)(\d+) matched at position k:
\* the index where group 1 starts, or 0 when there is no match at k
PlanMatchAt(s, k) ==
    LET a1 == OptSep(s, k + 8)
        b1 == OptSep(s, a1 + 4)
        b2 == OptSep(s, k + 4)
    IN  IF /\ HasPrefixCI(s, k, <<"d","i","s","t","r","i","c","t">>)
           /\ HasPrefixCI(s, a1, <<"p","l","a","n">>)
           /\ b1 <= Len(s) /\ IsDigit(s[b1])
        THEN b1
        ELSE IF /\ HasPrefixCI(s, k, <<"p","l","a","n">>)
                /\ b2 <= Len(s) /\ IsDigit(s[b2])
             THEN b2
             ELSE 0

\* re.search: the leftmost position with a match
RECURSIVE PlanSearch(_, _)
PlanSearch(s, k) ==
    IF k > Len(s) THEN None
    ELSE LET g == PlanMatchAt(s, k)
         IN  IF g # 0 THEN IntOf(s, g, DigitsEnd(s, g)) ELSE PlanSearch(s, k + 1)

\* district[_-]?(\d+) matched at position k: start of group 1, or 0
DistrictMatchAt(s, k) ==
    LET a == OptSep(s, k + 8)
    IN  IF HasPrefixCI(s, k, <<"d","i","s","t","r","i","c","t">>) /\ a <= Len(s) /\ IsDigit(s[a])
        THEN a ELSE 0

\* re.findall: the captured numbers of the non-overlapping matches, in order
RECURSIVE DistrictFindAll(_, _)
DistrictFindAll(s, k) ==
    IF k > Len(s) THEN <<>>
    ELSE LET g == DistrictMatchAt(s, k)
         IN  IF g # 0
             THEN <<IntOf(s, g, DigitsEnd(s, g))>> \o DistrictFindAll(s, DigitsEnd(s, g))
             ELSE DistrictFindAll(s, k + 1)

\* (?:^|[_-])v(\d+)(?:\D|$) matched at position k: start of group 1, or 0
RepMatchAt(s, k) ==
    LET v == IF k = 1 /\ HasPrefixCI(s, 1, <<"v">>) THEN 1
             ELSE IF k <= Len(s) /\ s[k] \in {"_", "-"} /\ HasPrefixCI(s, k + 1, <<"v">>)
                  THEN k + 1 ELSE 0
    IN  IF v # 0 /\ v + 1 <= Len(s) /\ IsDigit(s[v + 1]) THEN v + 1 ELSE 0

RECURSIVE RepSearch(_, _)
RepSearch(s, k) ==
    IF k > Len(s) THEN None
    ELSE LET g == RepMatchAt(s, k)
         IN  IF g # 0 THEN IntOf(s, g, DigitsEnd(s, g)) ELSE RepSearch(s, k + 1)

parse_plan_district_rep_from_path(p) ==
    LET districts == DistrictFindAll(p, 1)
    IN  [plan     |-> PlanSearch(p, 1),
         district |-> IF districts = <<>> THEN None ELSE districts[Len(districts)],
         rep      |-> RepSearch(p, 1)]

(***************************************************************************)
(* Paths and the file system.                                              *)
(***************************************************************************)
\* project_root.parent of settings_generator.py, also the working directory
\* run.py is started in
ROOT == <<"/","r">>

Join(a, b) == a \o <<"/">> \o b

\* a relative path resolved against the working directory
Abs(p) == IF p # <<>> /\ p[1] = "/" THEN p ELSE Join(ROOT, p)

\* index of the last "/" of p, or 0
RECURSIVE LastSlash(_, _)
LastSlash(p, k) == IF k = 0 THEN 0 ELSE IF p[k] = "/" THEN k ELSE LastSlash(p, k - 1)

\* Path(p).name
BaseName(p) == SubSeq(p, LastSlash(p, Len(p)) + 1, Len(p))

\* Path(p).parent
DirName(p) == SubSeq(p, 1, LastSlash(p, Len(p)) - 1)

RECURSIVE LastDot(_, _)
LastDot(n, k) == IF k = 0 THEN 0 ELSE IF n[k] = "." THEN k ELSE LastDot(n, k - 1)

\* Path(p).stem: the name without its last suffix
Stem(p) ==
    LET n == BaseName(p)
        d == LastDot(n, Len(n))
    IN  IF d <= 1 THEN n ELSE SubSeq(n, 1, d - 1)

\* str.replace(old, new): every non-overlapping occurrence, left to right
RECURSIVE Replace(_, _, _, _)
Replace(s, k, old, new) ==
    IF k > Len(s) THEN <<>>
    ELSE IF HasPrefix(s, k, old) THEN new \o Replace(s, k + Len(old), old, new)
    ELSE <<s[k]>> \o Replace(s, k + 1, old, new)

WriteFile(fs, p, content) ==
    [q \in (DOMAIN fs) \cup {Abs(p)} |-> IF q = Abs(p) THEN content ELSE fs[q]]

FileExists(fs, p) == Abs(p) \in DOMAIN fs

(***************************************************************************)
(* Python integer arithmetic.                                              *)
(***************************************************************************)
\* a // b for b # 0 (floor division)
PyFloorDiv(a, b) == IF b > 0 THEN a \div b ELSE (0 - a) \div (0 - b)

\* a % b for b # 0 (the sign of the result follows b)
PyMod(a, b) == a - b * PyFloorDiv(a, b)

(***************************************************************************)
(* The run configuration and the population table.                         *)
(***************************************************************************)
BlocA == <<"A">>
BlocB == <<"B">>

Modes == <<"slate_pl", "slate_bt", "cambridge">>

ModeText(m) ==
    CASE m = "slate_pl" -> <<"s","l","a","t","e","_","p","l">>
      [] m = "slate_bt" -> <<"s","l","a","t","e","_","b","t">>
      [] m = "cambridge" -> <<"c","a","m","b","r","i","d","g","e">>

\* run names: a plain one, one holding the word "plan", one ending in a
\* version-like token
RunNames == { <<"n","c">>, <<"p","l","a","n">>, <<"t","_","v","2">> }

\* turnout maps over two blocs, rates k/TScale
TurnoutMaps ==
    { [b \in {BlocA, BlocB} |-> IF b = BlocA THEN ta ELSE tb] :
        ta \in 1..TScale, tb \in 1..TScale }

DefaultTurnout == [b \in {BlocA, BlocB} |-> TScale]

\* population tables: (total, of-interest) per geographic unit
PopData ==
    { << [vap |-> 10, ivap |-> 8], [vap |-> 10, ivap |-> 2],
         [vap |-> 10, ivap |-> 8], [vap |-> 10, ivap |-> 2] >>,
      << [vap |-> 5, ivap |-> 0], [vap |-> 5, ivap |-> 0],
         [vap |-> 7, ivap |-> 7], [vap |-> 3, ivap |-> 3] >> }

\* district assignments of the four units that the entries of a trace hold
Assignments(nd) ==
    IF nd = 2 THEN << <<0, 0, 1, 1>>, <<0, 1, 0, 1>> >>
    ELSE << <<0, 1, 2, 2>>, <<2, 1, 0, 1>> >>

\* a chain trace of cl entries for nd districts: the two assignments
\* alternate, starting with either
TraceEntries(cl, nd, start) ==
    [k \in 1..cl |-> Assignments(nd)[((k + start) % 2) + 1]]

MakeConfig(rn, cl, ns, reps, t, dcs) ==
    [ run_name            |-> rn,
      chain_length        |-> cl,
      num_subsamples      |-> ns,
      num_reps            |-> reps,
      num_voters          |-> 100,
      slate_to_candidates |-> [b \in {BlocA, BlocB} |->
                                 IF b = BlocA THEN << <<"A","1">>, <<"A","3">> >> ELSE << <<"B","2">> >>],
      cohesion_parameters |-> [b \in {BlocA, BlocB} |-> [c \in {BlocA, BlocB} |->
                                 IF b = c THEN 9 ELSE 1]],
      alphas              |-> [b \in {BlocA, BlocB} |-> [c \in {BlocA, BlocB} |-> 1]],
      turnout             |-> t,
      focal_group         |-> BlocA,
      district_configs    |-> dcs ]

\* [{"num_districts": n, "winners": w}, ...]
DistrictConfigLists ==
    { << [num_districts |-> 2, winners |-> 1] >>,
      << [num_districts |-> 2, winners |-> 2], [num_districts |-> 3, winners |-> 1] >> }

(***************************************************************************)
(* Exact rational arithmetic for the proportions.                          *)
(***************************************************************************)
RMul(a, b) == <<a[1] * b[1], a[2] * b[2]>>
RAdd(a, b) == <<a[1] * b[2] + b[1] * a[2], a[2] * b[2]>>
ROneMinus(a) == <<a[2] - a[1], a[2]>>
RDiv(a, b) == <<a[1] * b[2], a[2] * b[1]>>
\* a quotient with a zero denominator stands for the nan that the division
\* of the grouped table's columns yields for 0/0; nan is not zero
RIsNaN(a) == a[2] = 0
RIsZero(a) == a[1] = 0 /\ ~RIsNaN(a)
REq(a, b) == a[1] * b[2] = b[1] * a[2]
RLeq(a, b) == IF a[2] * b[2] > 0 THEN a[1] * b[2] <= b[1] * a[2]
              ELSE a[1] * b[2] >= b[1] * a[2]

\* a fraction in lowest terms
RECURSIVE Gcd(_, _)
Gcd(a, b) == IF b = 0 THEN a ELSE Gcd(b, a % b)

Lowest(a) == <<a[1] \div Gcd(a[1], a[2]), a[2] \div Gcd(a[1], a[2])>>

\* k tenths
Tenth(k) == <<k, 10>>

\* a JSON number and a JSON list, told apart
JNum(x) == [num |-> x]
JList(xs) == [list |-> xs]

(***************************************************************************)
(* settings_generator.generate_settings and                                *)
(* 02_settings_generator.settings_generator                                *)
(***************************************************************************)
\* settings_generator.py:31 (the first two names share one string literal)
district_params ==
    {"num_voters, slate_to_candidates", "cohesion_parameters", "alphas"}

\* 02_settings_generator.py:27
district_params_02 ==
    {"num_voters", "slate_to_candidates", "cohesion_parameters", "alphas"}

\* {k: config[k] for k in config if k in district_params}
output_settings(im) ==
    LET keep == IF im = "run" THEN district_params ELSE district_params_02
    IN  [k \in (DOMAIN config) \cap keep |-> config[k]]

\* the blocs next(iter(turnout.keys() - {focal_group})) may return;
\* the draft subtracts set(focal_group), the set of its characters
OtherGroups(im) ==
    IF im = "run"
    THEN (DOMAIN config.turnout) \ {config.focal_group}
    ELSE (DOMAIN config.turnout) \
            { <<config.focal_group[i]>> : i \in 1..Len(config.focal_group) }

\* the district counts the outer loop visits
DistrictNums(im) ==
    IF im = "run"
    THEN << config.district_configs[1].num_districts >>
    ELSE [i \in 1..Len(config.district_configs) |->
            config.district_configs[i].num_districts]

settings_folder(im, district_num) ==
    LET rel == Concat(<< <<"o","u","t","p","u","t","s","/","s","e","t","t","i","n","g","s","/">>, config.run_name, <<"_","s","e","t","t","i","n","g","s","/">>,
                         DecStr(district_num) >>)
    IN  IF im = "run" THEN Join(ROOT, rel) ELSE rel

path_to_districting(im, district_num) ==
    IF im = "run"
    THEN Join(ROOT, Concat(<< <<"o","u","t","p","u","t","s","/","d","i","s","t","r","i","c","t","s","/">>, config.run_name, <<"_","c","h","a","i","n","_","o","u","t","/">>,
                              config.run_name, <<"_">>, DecStr(district_num),
                              <<"_","d","i","s","t","r","i","c","t","s",".","j","s","o","n","l">> >>))
    ELSE Concat(<< <<"o","u","t","p","u","t","s","/","d","i","s","t","r","i","c","t","s","/">>, config.run_name, <<"_","d","i","s","t","r","i","c","t","s","/">>,
                   DecStr(district_num), <<".","j","s","o","n","l">> >>)

\* the name of the settings file of (sample_idx, district)
SettingsFileName(district_num, idx, district) ==
    Concat(<< config.run_name, <<"_">>, DecStr(district_num),
              <<"_","s","a","m","p","l","e","_","s","e","t","t","i","n","g","s","_","d","i","s","t","r","i","c","t","_","p","l","a","n","_">>, Fmt0(idx, 3),
              <<"_","d","i","s","t","r","i","c","t","_">>, Fmt0(district, 2), <<".","j","s","o","n">> >>)

subsample_interval(chain_length, num_subsamples) ==
    PyFloorDiv(chain_length, num_subsamples)

\* a selection test that starts counting at one
IsSelectedFromOne(idx, step) == PyMod(idx + 1, step) = 0

\* the loop's test: the entry at sample_idx is processed
IsSelected(idx, step) == PyMod(idx, step) = 0

\* a sum that ignores the grouping and adds up the whole column
RECURSIVE SumByAll(_, _, _, _)
SumByAll(assignment, d, col, k) ==
    IF k = 0 THEN 0 ELSE SumByAll(assignment, d, col, k - 1) + population[k][col]

\* population_data.groupby("district_plan").sum(), one column of one row
RECURSIVE SumBy(_, _, _, _)
SumBy(assignment, d, col, k) ==
    IF k = 0 THEN 0
    ELSE SumBy(assignment, d, col, k - 1) +
         (IF assignment[k] = d THEN population[k][col] ELSE 0)

\* the row labels of the grouped table, ascending
RECURSIVE SortedSeq(_)
SortedSeq(S) ==
    IF S = {} THEN <<>>
    ELSE LET m == CHOOSE x \in S : \A y \in S : x <= y
         IN  <<m>> \o SortedSeq(S \ {m})

DistrictIds(assignment) == SortedSeq({ assignment[k] : k \in 1..Len(assignment) })

\* prop*turnout[focal] / (prop*turnout[focal] + (1-prop)*turnout[other])
AdjustedDenominator(prop, tf, to) == RAdd(RMul(prop, tf), RMul(ROneMinus(prop), to))

\* an adjustment that weighs the blocs with each other's turnout
adjusted_prop_swapped(prop, tf, to) ==
    RDiv(RMul(prop, to), AdjustedDenominator(prop, to, tf))

adjusted_prop(prop, tf, to) == RDiv(RMul(prop, tf), AdjustedDenominator(prop, tf, to))

\* a loop body that derives the proportions from the first row of the
\* grouped table for every district
DistrictSettingsFirstRow(im, other, assignment, d) ==
    LET d0   == DistrictIds(assignment)[1]
        ivap == SumBy(assignment, d, "ivap", Len(assignment))
        vap  == SumBy(assignment, d, "vap", Len(assignment))
        prop == <<SumBy(assignment, d0, "ivap", Len(assignment)),
                  SumBy(assignment, d0, "vap", Len(assignment))>>
        tf   == <<config.turnout[config.focal_group], TScale>>
        to   == <<config.turnout[other], TScale>>
        adj  == adjusted_prop(prop, tf, to)
    IN  [ bloc_proportions |->
              [b \in {config.focal_group, other} |->
                  IF b = other THEN ROneMinus(adj) ELSE adj],
          total_ivap |-> IF im = "run" THEN JList(<<ivap>>) ELSE JNum(ivap),
          total_vap  |-> JNum(vap) ]
        @@ output_settings(im)

\* the body of the per-district loop: the content written for district d
DistrictSettings(im, other, assignment, d) ==
    LET ivap == SumBy(assignment, d, "ivap", Len(assignment))
        vap  == SumBy(assignment, d, "vap", Len(assignment))
        prop == <<ivap, vap>>
        tf   == <<config.turnout[config.focal_group], TScale>>
        to   == <<config.turnout[other], TScale>>
        adj  == adjusted_prop(prop, tf, to)
    IN  [ bloc_proportions |->
              [b \in {config.focal_group, other} |->
                  IF b = other THEN ROneMinus(adj) ELSE adj],
          total_ivap |-> IF im = "run" THEN JList(<<ivap>>) ELSE JNum(ivap),
          total_vap  |-> JNum(vap) ]
        @@ output_settings(im)

\* the float division of line 72 raises ZeroDivisionError; the division of
\* line 71 is one of the table's columns and yields nan for 0/0
DistrictFails(other, assignment, d) ==
    LET ivap == SumBy(assignment, d, "ivap", Len(assignment))
        vap  == SumBy(assignment, d, "vap", Len(assignment))
    IN  RIsZero(AdjustedDenominator(<<ivap, vap>>,
                  <<config.turnout[config.focal_group], TScale>>,
                  <<config.turnout[other], TScale>>))

\* the per-district loop over the rows ds of one selected trace entry
RECURSIVE WriteDistricts(_, _, _, _, _, _, _)
WriteDistricts(acc, ds, im, other, district_num, idx, assignment) ==
    IF ds = <<>> THEN acc
    ELSE IF DistrictFails(other, assignment, Head(ds))
    THEN [acc EXCEPT !.error = "ZeroDivisionError"]
    ELSE LET d == Head(ds)
             p == Join(settings_folder(im, district_num),
                       SettingsFileName(district_num, idx, d))
         IN  WriteDistricts(
                [ files   |-> WriteFile(acc.files, p,
                                        DistrictSettings(im, other, assignment, d)),
                  written |-> acc.written \cup
                                { [path |-> p, district_num |-> district_num,
                                   plan |-> idx, district |-> d,
                                   ivap |-> SumBy(assignment, d, "ivap", Len(assignment)),
                                   vap  |-> SumBy(assignment, d, "vap", Len(assignment))] },
                  error   |-> "" ],
                Tail(ds), im, other, district_num, idx, assignment)

\* enter the body of the district-count loop for its k-th value
EnterDistrictNum(k, fs) ==
    IF k > Len(DistrictNums(impl))
    THEN /\ pc' = "done"
         /\ error' = ""
         /\ dirs' = dirs
         /\ UNCHANGED <<dc_idx, sample_idx>>
    ELSE /\ dirs' = dirs \cup {Abs(settings_folder(impl, DistrictNums(impl)[k]))}
         /\ dc_idx' = k
         /\ sample_idx' = 0
         /\ IF FileExists(fs, path_to_districting(impl, DistrictNums(impl)[k]))
            THEN pc' = "gs_loop" /\ error' = ""
            ELSE pc' = "failed" /\ error' = "FileNotFoundError"

\* lines 8-55: read the configuration, derive the stride and the other bloc
generate_settings_begin ==
    /\ pc = "gs_start"
    /\ IF config.num_subsamples = 0
       THEN /\ pc' = "failed"
            /\ error' = "ZeroDivisionError"
            /\ UNCHANGED <<interval, other_group, dirs, dc_idx, sample_idx>>
       ELSE IF OtherGroups(impl) = {}
       THEN /\ pc' = "failed"
            /\ error' = IF impl = "run" THEN "StopIteration" ELSE "KeyError"
            /\ interval' = subsample_interval(config.chain_length, config.num_subsamples)
            /\ UNCHANGED <<other_group, dirs, dc_idx, sample_idx>>
       ELSE /\ interval' = subsample_interval(config.chain_length, config.num_subsamples)
            /\ \E og \in OtherGroups(impl) : other_group' = og
            /\ EnterDistrictNum(1, files)
    /\ UNCHANGED <<config, population, files, impl, written>>
    /\ UNCHANGED <<election_vars, summary_vars, pure_vars>>
    /\ UNCHANGED profile_vars

\* one iteration of the loop over the trace (lines 56-83)
generate_settings_sample ==
    /\ pc = "gs_loop"
    /\ LET district_num == DistrictNums(impl)[dc_idx]
           trace == files[Abs(path_to_districting(impl, district_num))]
       IN  /\ sample_idx < Len(trace.entries)
           /\ IF interval = 0
              THEN /\ pc' = "failed"
                   /\ error' = "ZeroDivisionError"
                   /\ UNCHANGED <<files, written, sample_idx>>
              ELSE IF ~IsSelected(sample_idx, interval)
              THEN /\ sample_idx' = sample_idx + 1
                   /\ UNCHANGED <<files, written, pc, error>>
              ELSE LET assignment == trace.entries[sample_idx + 1].assignment
                       IN
                     LET res == WriteDistricts(
                                   [files |-> files, written |-> written, error |-> ""],
                                   DistrictIds(assignment), impl, other_group,
                                   district_num, sample_idx, assignment)
                     IN  /\ files' = res.files
                         /\ written' = res.written
                         /\ error' = res.error
                         /\ IF res.error = ""
                            THEN pc' = pc /\ sample_idx' = sample_idx + 1
                            ELSE pc' = "failed" /\ sample_idx' = sample_idx
    /\ UNCHANGED <<config, population, dirs, impl, dc_idx, interval, other_group>>
    /\ UNCHANGED <<election_vars, summary_vars, pure_vars>>
    /\ UNCHANGED profile_vars

\* the trace is exhausted: on to the next district count, or return
generate_settings_end ==
    /\ pc = "gs_loop"
    /\ sample_idx =
          Len(files[Abs(path_to_districting(impl, DistrictNums(impl)[dc_idx]))].entries)
    /\ EnterDistrictNum(dc_idx + 1, files)
    /\ UNCHANGED <<config, population, files, impl, interval, other_group, written>>
    /\ UNCHANGED <<election_vars, summary_vars, pure_vars>>
    /\ UNCHANGED profile_vars

(***************************************************************************)
(* The settings stage from a fresh output directory.                       *)
(***************************************************************************)
\* "run": the modules run.py imports; "draft": the numbered scripts
Impls == {"run", "draft"}

\* the chain traces of every configured district count, each of chain_length entries
TraceFiles(cfg, im, start) ==
    LET nums == { cfg.district_configs[i].num_districts :
                    i \in 1..Len(cfg.district_configs) }
        pathOf(n) ==
            IF im = "run"
            THEN Join(ROOT, Concat(<< <<"o","u","t","p","u","t","s","/","d","i","s","t","r","i","c","t","s","/">>, cfg.run_name, <<"_","c","h","a","i","n","_","o","u","t","/">>,
                                      cfg.run_name, <<"_">>, DecStr(n), <<"_","d","i","s","t","r","i","c","t","s",".","j","s","o","n","l">> >>))
            ELSE Abs(Concat(<< <<"o","u","t","p","u","t","s","/","d","i","s","t","r","i","c","t","s","/">>, cfg.run_name, <<"_","d","i","s","t","r","i","c","t","s","/">>,
                              DecStr(n), <<".","j","s","o","n","l">> >>))
    IN  [p \in { pathOf(n) : n \in nums } |->
            LET n == CHOOSE m \in nums : pathOf(m) = p
            IN  [entries |->
                   [k \in 1..cfg.chain_length |->
                      [assignment |-> TraceEntries(cfg.chain_length, n, start)[k]]]]]

InitSettingsOver(configs, tables) ==
    /\ config \in configs
    /\ population \in tables
    /\ impl \in Impls
    /\ \E start \in 0..1 : files = TraceFiles(config, impl, start)
    /\ dirs = {}
    /\ pc = "gs_start"
    /\ dc_idx = 0
    /\ sample_idx = 0
    /\ interval = 0
    /\ other_group = <<>>
    /\ written = {}
    /\ error = ""
    /\ fs_order = "asc"
    /\ mode_idx = 0
    /\ queue = <<>>
    /\ results = <<>>
    /\ rows = <<>>
    /\ plan_rows = {}
    /\ call = <<>>
    /\ result = 0
    /\ duplicate_indx = 0
    /\ profile_log = <<>>

InitSettingsWith(names, turnouts) ==
    InitSettingsOver({ MakeConfig(rn, cl, ns, MaxReps, t, dcs) :
                         rn \in names, cl \in 1..MaxChain, ns \in (0 - 1)..(MaxChain + 1),
                         t \in turnouts, dcs \in DistrictConfigLists },
                     PopData)

NextSettings ==
    \/ generate_settings_begin
    \/ generate_settings_sample
    \/ generate_settings_end

InitSettings == InitSettingsWith({ <<"n","c">> }, TurnoutMaps)

SpecSettings == InitSettings /\ [][NextSettings]_vars

InitNaming == InitSettingsWith(RunNames, {DefaultTurnout})

SpecNaming == InitNaming /\ [][NextSettings]_vars

(***************************************************************************)
(* The settings stage on degenerate arithmetic: turnout rates that may be  *)
(* zero and a geography with units nobody lives in.                        *)
(***************************************************************************)
ZeroTurnoutMaps ==
    { [b \in {BlocA, BlocB} |-> IF b = BlocA THEN ta ELSE tb] :
        ta \in 0..TScale, tb \in 0..TScale }

EmptyUnitPopData ==
    { << [vap |-> 0, ivap |-> 0], [vap |-> 10, ivap |-> 4],
         [vap |-> 0, ivap |-> 0], [vap |-> 10, ivap |-> 6] >> }

InitVanishing ==
    InitSettingsOver({ MakeConfig(<<"n","c">>, cl, 1, MaxReps, t, dcs) :
                         cl \in 1..MaxChain, t \in ZeroTurnoutMaps,
                         dcs \in DistrictConfigLists },
                     PopData \cup EmptyUnitPopData)

SpecVanishing == InitVanishing /\ [][NextSettings]_vars

(***************************************************************************)
(* The settings stage on turnout maps of one, two and three blocs and on   *)
(* bloc names of one letter and of several.                                *)
(***************************************************************************)
BlocC == <<"C">>

\* (focal_group, turnout) pairs
BlocSetups ==
    LET full(S) == [b \in S |-> TScale]
        maps(f) == { {f}, {f, BlocB}, {f, <<"C","D">>}, {f, BlocB, BlocC} }
    IN  UNION { { [focal |-> f, turnout |-> full(S)] : S \in maps(f) } :
                  f \in {BlocA, <<"A","B">>} }

InitBlocs ==
    InitSettingsOver({ [MakeConfig(<<"n","c">>, cl, 1, MaxReps, s.turnout, dcs)
                          EXCEPT !.focal_group = s.focal] :
                         cl \in 1..MaxChain, s \in BlocSetups,
                         dcs \in DistrictConfigLists },
                     PopData)

SpecBlocs == InitBlocs /\ [][NextSettings]_vars

(***************************************************************************)
(* Ordering of text and glob matching.                                     *)
(***************************************************************************)
\* the characters of the model's paths in code-point order
Alphabet ==
    <<"-",".","/","0","1","2","3","4","5","6","7","8","9","A","C","D","I","L","N","P","R","S","T","V","_","a","b","c","d","e","f","g","h","i","j","k","l","m","n","o","p","q","r","s","t","u","v","w","x","y","z">>

Ord(c) == CHOOSE i \in 1..Len(Alphabet) : Alphabet[i] = c

\* a < b as Python compares str
TextLess(a, b) ==
    LET n == IF Len(a) < Len(b) THEN Len(a) ELSE Len(b)
        differ == { i \in 1..n : a[i] # b[i] }
    IN  IF differ = {} THEN Len(a) < Len(b)
        ELSE LET k == CHOOSE i \in differ : \A j \in differ : i <= j
             IN  Ord(a[k]) < Ord(b[k])

\* sorted(S) for a set of texts
RECURSIVE SortedTexts(_)
SortedTexts(S) ==
    IF S = {} THEN <<>>
    ELSE LET m == CHOOSE x \in S : \A y \in S \ {x} : TextLess(x, y)
         IN  <<m>> \o SortedTexts(S \ {m})

RECURSIVE Reverse(_)
Reverse(s) == IF s = <<>> THEN <<>> ELSE Reverse(Tail(s)) \o <<Head(s)>>

\* fnmatch of a pattern whose only wildcard is "*"
RECURSIVE GlobMatch(_, _, _, _)
GlobMatch(pat, i, name, j) ==
    IF i > Len(pat) THEN j > Len(name)
    ELSE IF pat[i] = "*"
    THEN \E k \in j..(Len(name) + 1) : GlobMatch(pat, i + 1, name, k)
    ELSE LET stop == CHOOSE e \in (i + 1)..(Len(pat) + 1) :
                         /\ e = Len(pat) + 1 \/ pat[e] = "*"
                         /\ \A m \in i..(e - 1) : pat[m] # "*"
             lit == SubSeq(pat, i, stop - 1)
         IN  /\ HasPrefix(name, j, lit)
             /\ GlobMatch(pat, stop, name, j + Len(lit))

\* the files directly inside a directory
DirFiles(fs, dir) == { p \in DOMAIN fs : DirName(p) = Abs(dir) }

\* directory.glob(pattern): the matching files, as paths under `dir`
GlobDir(fs, dir, pat) ==
    { Join(dir, BaseName(p)) : p \in { q \in DirFiles(fs, dir) :
                                         GlobMatch(pat, 1, BaseName(q), 1) } }

DirExists(fs, ds, dir) ==
    \/ Abs(dir) \in ds
    \/ \E p \in DOMAIN fs : HasPrefix(p, 1, Abs(dir) \o <<"/">>)

(***************************************************************************)
(* helpers.find_settings_file                                              *)
(***************************************************************************)
NoFile == <<>>

\* the fallback patterns of step 2, in the order they are tried
SettingsPatterns(plan, district) ==
    IF plan # None /\ district # None
    THEN << Concat(<< <<"*","d","i","s","t","r","i","c","t","_","p","l","a","n","_">>, Fmt0(plan, 3), <<"*","d","i","s","t","r","i","c","t","_">>,
                      Fmt0(district, 2), <<".","j","s","o","n">> >>),
            Concat(<< <<"*","p","l","a","n","_">>, Fmt0(plan, 3), <<"*","d","i","s","t","r","i","c","t","_">>,
                      Fmt0(district, 2), <<".","j","s","o","n">> >>),
            Concat(<< <<"*","p","l","a","n","*">>, DecStr(plan), <<"*","d","i","s","t","r","i","c","t","*">>,
                      Fmt0(district, 2), <<"*",".","j","s","o","n">> >>),
            Concat(<< <<"*","p","l","a","n","*">>, DecStr(plan), <<"*","d","i","s","t","r","i","c","t","*">>,
                      DecStr(district), <<"*",".","j","s","o","n">> >>) >>
    ELSE IF plan # None
    THEN << Concat(<< <<"*","d","i","s","t","r","i","c","t","_","p","l","a","n","_">>, Fmt0(plan, 3), <<"*",".","j","s","o","n">> >>),
            Concat(<< <<"*","p","l","a","n","_">>, Fmt0(plan, 3), <<"*",".","j","s","o","n">> >>),
            Concat(<< <<"*","p","l","a","n","*">>, DecStr(plan), <<"*",".","j","s","o","n">> >>) >>
    ELSE IF district # None
    THEN << Concat(<< <<"*","d","i","s","t","r","i","c","t","_">>, Fmt0(district, 2), <<".","j","s","o","n">> >>),
            Concat(<< <<"*","d","i","s","t","r","i","c","t","*">>, Fmt0(district, 2), <<"*",".","j","s","o","n">> >>) >>
    ELSE << >>

\* for pat in patterns: hits = sorted(glob(pat)); if hits: return hits[0]
RECURSIVE FirstPatternHit(_, _, _)
FirstPatternHit(fs, dir, pats) ==
    IF pats = <<>> THEN NoFile
    ELSE LET hits == GlobDir(fs, dir, Head(pats))
         IN  IF hits # {} THEN SortedTexts(hits)[1]
             ELSE FirstPatternHit(fs, dir, Tail(pats))

\* the exact name of step 1
ExactSettingsName(plan, district) ==
    Concat(<< <<"s","a","m","p","l","e","_","v","k","_","s","a","m","p","l","e","_","s","e","t","t","i","n","g","s","_","d","i","s","t","r","i","c","t","_","p","l","a","n","_">>, Fmt0(plan, 3),
              <<"_","d","i","s","t","r","i","c","t","_">>, Fmt0(district, 2), <<".","j","s","o","n">> >>)

\* a lookup that tries the patterns before the exact name
find_settings_file_patterns_first(fs, ds, dir, plan, district) ==
    LET exact == Join(dir, ExactSettingsName(plan, district))
        hit == FirstPatternHit(fs, dir, SettingsPatterns(plan, district))
        all_files == GlobDir(fs, dir, <<"*",".","j","s","o","n">>)
    IN  IF ~DirExists(fs, ds, dir) THEN NoFile
        ELSE IF hit # NoFile THEN hit
        ELSE IF plan # None /\ district # None /\ FileExists(fs, exact) THEN exact
        ELSE IF Cardinality(all_files) = 1 THEN CHOOSE f \in all_files : TRUE
        ELSE NoFile

find_settings_file(fs, ds, settings_dir, plan, district) ==
    LET exact == Join(settings_dir,
                      Concat(<< <<"s","a","m","p","l","e","_","v","k","_","s","a","m","p","l","e","_","s","e","t","t","i","n","g","s","_","d","i","s","t","r","i","c","t","_","p","l","a","n","_">>,
                                Fmt0(plan, 3), <<"_","d","i","s","t","r","i","c","t","_">>, Fmt0(district, 2),
                                <<".","j","s","o","n">> >>))
        hit == FirstPatternHit(fs, settings_dir, SettingsPatterns(plan, district))
        all_files == GlobDir(fs, settings_dir, <<"*",".","j","s","o","n">>)
    IN  IF ~DirExists(fs, ds, settings_dir) THEN NoFile
        ELSE IF plan # None /\ district # None /\ FileExists(fs, exact) THEN exact
        ELSE IF hit # NoFile THEN hit
        ELSE IF Cardinality(all_files) = 1 THEN CHOOSE f \in all_files : TRUE
        ELSE NoFile

(***************************************************************************)
(* helpers.is_focal_candidate, helpers.count_focal_winners                 *)
(***************************************************************************)
\* slate_to_candidates.get(focal_group, [])
SlateGet(slate, group) == IF group \in DOMAIN slate THEN slate[group] ELSE <<>>

\* a membership test without the single-letter prefix rule
is_focal_candidate_listed(candidate, focal_group, slate) ==
    \E i \in 1..Len(SlateGet(slate, focal_group)) :
        SlateGet(slate, focal_group)[i] = candidate

is_focal_candidate(candidate, focal_group, slate) ==
    LET focal_list == { SlateGet(slate, focal_group)[i] :
                          i \in 1..Len(SlateGet(slate, focal_group)) }
    IN  IF candidate \in focal_list THEN TRUE
        ELSE IF Len(focal_group) = 1 /\ HasPrefix(candidate, 1, focal_group) THEN TRUE
        ELSE FALSE

RECURSIVE count_focal_winners(_, _, _)
count_focal_winners(winners, focal_group, slate) ==
    IF winners = <<>> THEN 0
    ELSE (IF is_focal_candidate(Head(winners), focal_group, slate) THEN 1 ELSE 0)
         + count_focal_winners(Tail(winners), focal_group, slate)

(***************************************************************************)
(* profile_generator.process_settings_file: the path of the profile        *)
(***************************************************************************)
\* profile_generator.py:56, as pathlib prints it
profile_folder(mode, district_num) ==
    Concat(<< <<"o","u","t","p","u","t","s","/","p","r","o","f","i","l","e","s","/">>, config.run_name, <<"/">>, ModeText(mode), <<"/">>,
              DecStr(district_num) >>)

\* profile_generator.py:35-40
output_file(settings_file, folder, rep) ==
    Join(folder,
         Concat(<< Replace(Stem(settings_file), 1, <<"s","a","m","p","l","e","_","s","e","t","t","i","n","g","s">>, <<"p","r","o","f","i","l","e">>),
                   <<"_","v">>, DecStr(rep), <<".","c","s","v">> >>))

(***************************************************************************)
(* simulate_elections.simulate_elections and                               *)
(* 04_simulate_elections.simulate_elections                                *)
(***************************************************************************)
\* the external tabulator on a ballot profile: the profile's ranking decides
\* the winners; STV for more than one seat, plurality otherwise
RECURSIVE Take(_, _)
Take(s, n) == IF n <= 0 \/ s = <<>> THEN <<>> ELSE <<Head(s)>> \o Take(Tail(s), n - 1)

\* the election class process_profile runs for n_seats (lines 82-89)
tabulator(n_seats) == IF n_seats > 1 THEN "STV" ELSE "Plurality"

process_profile(fs, profile_file, n_seats) ==
    LET profile == fs[Abs(profile_file)]
    IN  IF n_seats > 1 THEN Take(profile.ranking, n_seats)
        ELSE Take(profile.ranking, 1)

\* RankProfile.from_csv raises on a file that holds no ranked ballots
process_profile_raises(fs, profile_file) ==
    "ranking" \notin DOMAIN fs[Abs(profile_file)]

\* glob.glob(pattern): the matches in the order the file system enumerates them
GlobList(fs, dir, pat) ==
    IF fs_order = "asc" THEN SortedTexts(GlobDir(fs, dir, pat))
    ELSE Reverse(SortedTexts(GlobDir(fs, dir, pat)))

out_root == Concat(<< <<"o","u","t","p","u","t","s","/","e","l","e","c","t","i","o","n","_","r","e","s","u","l","t","s","/">>, config.run_name,
                      <<"_","e","l","e","c","t","i","o","n","_","r","e","s","u","l","t","s">> >>)

\* simulate_elections.py:111, and _find_profile_dirs of the draft
profile_root(im, mode) ==
    IF im = "run"
    THEN Concat(<< <<"o","u","t","p","u","t","s","/","p","r","o","f","i","l","e","s","/">>, config.run_name, <<"/">>, ModeText(mode) >>)
    ELSE Concat(<< <<"o","u","t","p","u","t","s","/","p","r","o","f","i","l","e","s","/">>, ModeText(mode) >>)

\* all_profile_files for one (mode, district count)
all_profile_files(im, fs, mode, dc) ==
    LET dir == Join(profile_root(im, mode), DecStr(dc.num_districts))
    IN  IF im = "run" THEN GlobList(fs, dir, <<"*",".","c","s","v">>)
        ELSE SortedTexts(GlobDir(fs, dir, <<"*",".","c","s","v">>))

results_path(im, mode, dc) ==
    Join(Join(out_root, ModeText(mode)),
         Concat(<< config.run_name, <<"_">>, DecStr(dc.num_districts), <<"_","d","i","s","t","r","i","c","t","s","_">>,
                   DecStr(dc.winners),
                   IF im = "run" THEN <<"_","w","i","n","n","e","r","s","_","f","o","r","_","v","o","t","e","r","_","m","o","d","e","_">>
                   ELSE <<"_","w","i","n","n","e","r","s","_","f","o","r","_","v","o","t","e","r","_","m","o","d","e","l","_">>,
                   ModeText(mode), <<".","j","s","o","n">> >>))

\* the object json.dump writes
winner_set(im, mode, dc, profile_files, winners_list) ==
    IF im = "run"
    THEN [ run_name |-> config.run_name, voter_mode |-> mode,
           district_num |-> dc.num_districts, winners_per_district |-> dc.winners,
           profile_files |-> profile_files, winners |-> winners_list ]
    ELSE [ run_name |-> config.run_name, voter_model |-> mode,
           district_num |-> dc.num_districts, winners_per_district |-> dc.winners,
           winners |-> winners_list ]

\* the loops `for mode` and `for dc` move on to their next pair
NextPair ==
    IF dc_idx < Len(config.district_configs)
    THEN /\ dc_idx' = dc_idx + 1 /\ mode_idx' = mode_idx /\ pc' = "se_list"
    ELSE IF mode_idx < Len(Modes)
    THEN /\ dc_idx' = 1 /\ mode_idx' = mode_idx + 1 /\ pc' = "se_list"
    ELSE /\ dc_idx' = dc_idx /\ mode_idx' = mode_idx /\ pc' = "se_done"

\* read the configuration, create the output root
simulate_elections_begin ==
    /\ pc = "se_start"
    /\ dirs' = dirs \cup {Abs(out_root)}
    /\ mode_idx' = 1
    /\ dc_idx' = 1
    /\ pc' = "se_list"
    /\ UNCHANGED <<config, population, files, impl, sample_idx, interval, other_group,
                   written, error, fs_order, queue, results>>
    /\ UNCHANGED <<summary_vars, pure_vars>>
    /\ UNCHANGED profile_vars

\* the head of one (mode, dc) iteration: create the mode's output directory,
\* list the profiles, hand them to the worker pool
simulate_elections_list ==
    /\ pc = "se_list"
    /\ LET mode == Modes[mode_idx]
           dc == config.district_configs[dc_idx]
           found == all_profile_files(impl, files, mode, dc)
       IN  /\ dirs' = dirs \cup {Abs(Join(out_root, ModeText(mode)))}
           /\ IF impl = "draft" /\ ~DirExists(files, dirs, profile_root(impl, mode))
              THEN \* no profile directory: `continue` to the next model
                   /\ IF mode_idx < Len(Modes)
                      THEN dc_idx' = 1 /\ mode_idx' = mode_idx + 1 /\ pc' = pc
                      ELSE dc_idx' = dc_idx /\ mode_idx' = mode_idx /\ pc' = "se_done"
                   /\ UNCHANGED <<queue, results>>
              ELSE IF impl = "draft" /\ found = <<>>
              THEN \* no profiles: `continue` to the next configuration
                   /\ NextPair
                   /\ UNCHANGED <<queue, results>>
              ELSE /\ queue' = found
                   /\ results' = <<>>
                   /\ pc' = "se_run"
                   /\ UNCHANGED <<dc_idx, mode_idx>>
    /\ UNCHANGED <<config, population, files, impl, sample_idx, interval, other_group,
                   written, error, fs_order>>
    /\ UNCHANGED <<summary_vars, pure_vars>>
    /\ UNCHANGED profile_vars

\* one task of the worker pool finishes; its result takes the task's slot.
\* An exception of a task is re-raised by Parallel(...) in the caller, where
\* nothing catches it: the stage ends with what the tasks returned lost
simulate_elections_task ==
    /\ pc = "se_run"
    /\ \E i \in (1..Len(queue)) \ (DOMAIN results) :
          IF process_profile_raises(files, queue[i])
          THEN /\ pc' = "failed"
               /\ error' = "TaskError"
               /\ results' = results
          ELSE /\ results' = [j \in (DOMAIN results) \cup {i} |->
                                IF j = i
                                THEN process_profile(files, queue[i],
                                                     config.district_configs[dc_idx].winners)
                                ELSE results[j]]
               /\ UNCHANGED <<pc, error>>
    /\ UNCHANGED <<config, population, files, dirs, impl, dc_idx, sample_idx,
                   interval, other_group, written, fs_order, mode_idx, queue>>
    /\ UNCHANGED <<summary_vars, pure_vars>>
    /\ UNCHANGED profile_vars

\* every task has finished: winners_list is complete, the artifact is written
simulate_elections_write ==
    /\ pc = "se_run"
    /\ DOMAIN results = 1..Len(queue)
    /\ LET mode == Modes[mode_idx]
           dc == config.district_configs[dc_idx]
           winners_list == [i \in 1..Len(queue) |-> results[i]]
       IN  files' = WriteFile(files, results_path(impl, mode, dc),
                              winner_set(impl, mode, dc, queue, winners_list))
    /\ NextPair
    /\ queue' = <<>>
    /\ results' = <<>>
    /\ UNCHANGED <<config, population, dirs, impl, sample_idx, interval, other_group,
                   written, error, fs_order>>
    /\ UNCHANGED <<summary_vars, pure_vars>>
    /\ UNCHANGED profile_vars

(***************************************************************************)
(* summarize_results.summarize_results and                                 *)
(* 05_summarize_results.summarize_results                                  *)
(***************************************************************************)
JNull == [null |-> TRUE]

\* dict.get(key, default)
JGet(data, key, default) == IF key \in DOMAIN data THEN data[key] ELSE default

results_dir == out_root

\* summarize_results.py:68, 05_summarize_results.py:220
settings_dir(im, dc) ==
    IF im = "run"
    THEN Concat(<< <<"o","u","t","p","u","t","s","/","s","e","t","t","i","n","g","s","/">>, config.run_name, <<"_","s","e","t","t","i","n","g","s","/">>,
                   DecStr(dc.num_districts) >>)
    ELSE Concat(<< <<"o","u","t","p","u","t","s","/","s","e","t","t","i","n","g","s","/">>, DecStr(dc.num_districts) >>)

summary_csv ==
    Concat(<< <<"o","u","t","p","u","t","s","/","s","u","m","m","a","r","i","e","s","/">>, config.run_name, <<"_","s","u","m","m","a","r","y","/">>, config.run_name,
              <<"_","s","u","m","m","a","r","y",".","c","s","v">> >>)

\* summary_dir and figs_dir, created before any row is built
summary_dirs ==
    { Abs(DirName(summary_csv)), Abs(Join(DirName(summary_csv), <<"f","i","g","u","r","e","s">>)) }

\* the keys of a result file the loop reads (summarize_results.py:80-88)
fields_read ==
    {"district_num", "winners_per_district", "voter_mode", "winners", "profile_files"}

\* the result file belongs to this configuration and voter model
ResultMatches(im, data, dc, mode) ==
    /\ JGet(data, "district_num", dc.num_districts) = dc.num_districts
    /\ JGet(data, "winners_per_district", dc.winners) = dc.winners
    /\ JGet(data, IF im = "run" THEN "voter_mode" ELSE "voter_model", mode) = mode

\* iprop = ivap/vap over the whole geography
RECURSIVE SumColumn(_, _, _)
SumColumn(gdf, col, k) ==
    IF k = 0 THEN 0 ELSE SumColumn(gdf, col, k - 1) + gdf[k][col]

iprop(gdf) == Lowest(<<SumColumn(gdf, "ivap", Len(gdf)), SumColumn(gdf, "vap", Len(gdf))>>)

\* next(iter(turnout.keys() - {focal_group})) on a turnout map of two blocs
non_focal_group(turnout, focal) == CHOOSE b \in (DOMAIN turnout) \ {focal} : TRUE

\* a turnout adjustment that weighs the blocs with each other's rate
iprop_turnout_swapped(p, turnout, focal, other) ==
    Lowest(RDiv(RMul(p, turnout[other]),
                RAdd(RMul(p, turnout[other]), RMul(ROneMinus(p), turnout[focal]))))

\* iprop*turnout[focal] / (iprop*turnout[focal] + (1-iprop)*turnout[non_focal])
iprop_turnout(p, turnout, focal, other) ==
    Lowest(RDiv(RMul(p, turnout[focal]),
                RAdd(RMul(p, turnout[focal]), RMul(ROneMinus(p), turnout[other]))))

\* a combined support that takes the other bloc's cohesion for itself
i_cs_turnout_own(pt, cohesion, focal, other) ==
    Lowest(RAdd(RMul(pt, cohesion[focal][focal]),
                RMul(ROneMinus(pt), cohesion[other][other])))

\* iprop_turnout*cohesion[focal][focal] + (1-iprop_turnout)*cohesion[non_focal][focal]
i_cs_turnout(pt, cohesion, focal, other) ==
    Lowest(RAdd(RMul(pt, cohesion[focal][focal]),
                RMul(ROneMinus(pt), cohesion[other][focal])))

\* lines 34-50 on the run's configuration (turnout in units of 1/TScale,
\* cohesion in tenths) and geography
combined_support(cfg, gdf) ==
    LET focal == cfg.focal_group
        other == non_focal_group(cfg.turnout, focal)
        turnout == [b \in DOMAIN cfg.turnout |-> <<cfg.turnout[b], TScale>>]
        cohesion == [b \in DOMAIN cfg.cohesion_parameters |->
                       [c \in DOMAIN cfg.cohesion_parameters[b] |->
                           Tenth(cfg.cohesion_parameters[b][c])]]
    IN  i_cs_turnout(iprop_turnout(iprop(gdf), turnout, focal, other),
                     cohesion, focal, other)

\* the summary row of simulation idx (1-based here, idx - 1 in the table)
SummaryRow(im, fs, ds, data, dc, mode, idx) ==
    LET ident == parse_plan_district_rep_from_path(data.profile_files[idx])
        settings_path == find_settings_file(fs, ds, settings_dir(im, dc),
                                            ident.plan, ident.district)
        settings_data == IF settings_path # NoFile THEN fs[Abs(settings_path)] ELSE <<>>
    IN  [ run_name           |-> config.run_name,
          plan               |-> ident.plan,
          num_districts      |-> data.district_num,
          seats_per_district |-> data.winners_per_district,
          election_method    |-> "STV",
          mode               |-> mode,
          district_id        |-> ident.district,
          rep                |-> ident.rep,
          simulation_index   |-> idx - 1,
          focal_group        |-> config.focal_group,
          focal_seats        |-> count_focal_winners(data.winners[idx],
                                    config.focal_group, config.slate_to_candidates),
          total_vap          |-> JGet(settings_data, "total_vap", JNull),
          total_ivap         |-> JGet(settings_data, "total_hvap", JNull),
          combined_support   |-> combined_support(config, population),
          \* not a column of the table: the settings file that was joined
          settings_path      |-> settings_path ]

\* the rows of one result file, or the exception its loop raises
RowsOfFile(im, fs, ds, data, dc, mode) ==
    LET winners_all == JGet(data, "winners", <<>>)
    IN  IF winners_all = <<>> THEN [rows |-> <<>>, error |-> ""]
        ELSE IF "profile_files" \notin DOMAIN data
        THEN [rows |-> <<>>, error |-> "TypeError"]
        ELSE IF Len(data.profile_files) < Len(winners_all)
        THEN [rows |-> <<>>, error |-> "IndexError"]
        ELSE [rows |-> [idx \in 1..Len(winners_all) |->
                           SummaryRow(im, fs, ds, data, dc, mode, idx)],
              error |-> ""]

\* the result files the three nested loops visit, in order, as
\* <<configuration index, mode index, path>>
RECURSIVE VisitOrder(_, _, _, _)
VisitOrder(im, fs, ds, k) ==
    LET n == Len(Modes)
        dci == ((k - 1) \div n) + 1
        mi == ((k - 1) % n) + 1
        mode_dir == Join(results_dir, ModeText(Modes[mi]))
        here == IF DirExists(fs, ds, mode_dir)
                THEN SortedTexts(GlobDir(fs, mode_dir, <<"*",".","j","s","o","n">>)) ELSE <<>>
    IN  IF k > Len(config.district_configs) * n THEN <<>>
        ELSE [j \in 1..Len(here) |-> <<dci, mi, here[j]>>]
             \o VisitOrder(im, fs, ds, k + 1)

RECURSIVE CollectRows(_, _, _, _, _)
CollectRows(im, fs, ds, visits, acc) ==
    IF visits = <<>> THEN [rows |-> acc, error |-> ""]
    ELSE LET v == Head(visits)
             dc == config.district_configs[v[1]]
             mode == Modes[v[2]]
             data == fs[Abs(v[3])]
         IN  IF ~ResultMatches(im, data, dc, mode)
             THEN CollectRows(im, fs, ds, Tail(visits), acc)
             ELSE LET r == RowsOfFile(im, fs, ds, data, dc, mode)
                  IN  IF r.error # "" THEN [rows |-> acc, error |-> r.error]
                      ELSE CollectRows(im, fs, ds, Tail(visits), acc \o r.rows)

\* df.groupby([...]): the key of a row, and whether groupby keeps the row
\* (rows with a missing key value are left out of every group)
PlanKey(r) ==
    [ plan |-> r.plan, num_districts |-> r.num_districts,
      seats_per_district |-> r.seats_per_district, mode |-> r.mode,
      election_method |-> r.election_method, rep |-> r.rep ]

Grouped(r) == r.plan # None /\ r.rep # None

RECURSIVE SumFocal(_, _, _)
SumFocal(rs, key, k) ==
    IF k = 0 THEN 0
    ELSE SumFocal(rs, key, k - 1) +
         (IF Grouped(rs[k]) /\ PlanKey(rs[k]) = key THEN rs[k].focal_seats ELSE 0)

\* .agg({"focal_seats": "sum"})
PlanLevel(rs) ==
    { [key |-> key, focal_seats |-> SumFocal(rs, key, Len(rs))] :
        key \in { PlanKey(rs[k]) : k \in { i \in 1..Len(rs) : Grouped(rs[i]) } } }

summarize_results ==
    /\ pc = "se_done"
    /\ \E got \in {CollectRows(impl, files, dirs, VisitOrder(impl, files, dirs, 1), <<>>)} :
           IF Cardinality(DOMAIN config.turnout) # 2
           THEN /\ pc' = "failed" /\ error' = "ValueError"
                /\ UNCHANGED <<files, dirs, rows, plan_rows>>
           ELSE IF ~DirExists(files, dirs, results_dir)
           THEN /\ pc' = "failed" /\ error' = "FileNotFoundError"
                /\ UNCHANGED <<files, dirs, rows, plan_rows>>
           ELSE IF got.error # ""
           THEN /\ pc' = "failed" /\ error' = got.error
                /\ dirs' = dirs \cup summary_dirs
                /\ UNCHANGED <<files, rows, plan_rows>>
           ELSE /\ dirs' = dirs \cup summary_dirs
                /\ files' = WriteFile(files, summary_csv, [table |-> got.rows])
                /\ rows' = got.rows
                /\ IF got.rows = <<>>
                   THEN \* the empty table has no column to group by
                        pc' = "failed" /\ error' = "KeyError" /\ plan_rows' = plan_rows
                   ELSE pc' = "sum_done" /\ error' = "" /\ plan_rows' = PlanLevel(got.rows)
    /\ UNCHANGED <<config, population, impl>>
    /\ UNCHANGED <<settings_vars, election_vars, pure_vars>>
    /\ UNCHANGED profile_vars

(***************************************************************************)
(* The election and summary stages on a populated output directory.        *)
(***************************************************************************)
\* the rankings of the ballot profiles on disk
Rankings ==
    << << <<"A","1">>, <<"B","2">>, <<"A","3">> >>, << <<"B","2">>, <<"A","1">>, <<"A","3">> >>,
       << <<"A","3">>, <<"A","1">>, <<"B","2">> >>, << <<"B","2">>, <<"A","3">>, <<"A","1">> >>,
       << <<"A","1">>, <<"A","3">>, <<"B","2">> >> >>

PoolSize == Len(Rankings)

\* what the settings stage has written for two districts:
\* "all": plans 0 and 1, both districts; "plan": plan 0, both districts;
\* "one": plan 0 of a one-district plan; "none": nothing
SettingsOnDisk(im, scenario) ==
    LET other == BlocB
        a0 == Assignments(2)[1]
        a1 == Assignments(2)[2]
        start == [files |-> <<>>, written |-> {}, error |-> ""]
        p0 == WriteDistricts(start, DistrictIds(a0), im, other, 2, 0, a0)
        p1 == WriteDistricts(p0, DistrictIds(a1), im, other, 2, 1, a1)
        single == WriteDistricts(start, <<0>>, im, other, 2, 0, <<0, 0, 0, 0>>)
    IN  IF scenario = "all" THEN p1
        ELSE IF scenario = "plan" THEN p0
        ELSE IF scenario = "one" THEN single
        ELSE start

\* a profile file renamed without its replicate suffix "_v0"
UnversionedCopy(p) == SubSeq(p, 1, Len(p) - 7) \o <<".","c","s","v">>

\* the profiles that may lie in a model's directory for two districts: three
\* written by the profile stage, a profile copied without its replicate suffix
\* and a file of another origin
ProfilePool(im, mode) ==
    LET dir == Join(profile_root(im, mode), <<"2">>)
        sf(plan, d) == Join(settings_folder(im, 2), SettingsFileName(2, plan, d))
    IN  << Abs(output_file(sf(0, 0), dir, 0)), Abs(output_file(sf(0, 1), dir, 0)),
           Abs(output_file(sf(1, 0), dir, 0)),
           Abs(UnversionedCopy(output_file(sf(1, 1), dir, 0))),
           Abs(Join(dir, <<"n","o","t","e","s",".","c","s","v">>)) >>

\* the pools of the three voter models, as absolute paths
ProfilePools(im) ==
    << ProfilePool(im, Modes[1]), ProfilePool(im, Modes[2]), ProfilePool(im, Modes[3]) >>

\* the same choice of profiles in every model's directory
ProfilesOnDisk(pools, chosen) ==
    [p \in { pools[m][k] : m \in 1..Len(Modes), k \in chosen } |->
       [ranking |-> Rankings[CHOOSE k \in chosen :
                               \E m \in 1..Len(Modes) : pools[m][k] = p]]]

\* the files at the pool positions `broken` hold text that is no profile
Malformed(profiles, pools, broken) ==
    [p \in DOMAIN profiles |->
        IF \E m \in 1..Len(Modes) : \E k \in broken : pools[m][k] = p
        THEN [text |-> <<"n","o","t","e","s">>]
        ELSE profiles[p]]

InitElectionsWith(brokenSets) ==
    /\ config \in { MakeConfig(<<"n","c">>, 2, 1, 1, DefaultTurnout, dcs) :
                      dcs \in DistrictConfigLists }
    /\ population \in PopData
    /\ impl \in Impls
    /\ fs_order \in {"asc", "desc"}
    /\ \E scenario \in {"all", "one", "none"} :
       \E settings \in {SettingsOnDisk(impl, scenario)} :
       \E pools \in {ProfilePools(impl)} :
       \E chosen \in { S \in SUBSET (1..PoolSize) : Cardinality(S) <= MaxProfiles } :
       \E broken \in brokenSets :
       \E profiles \in {Malformed(ProfilesOnDisk(pools, chosen), pools, broken)} :
          /\ written = settings.written
          /\ files = profiles @@ settings.files
    /\ dirs = {}
    /\ pc = "se_start"
    /\ dc_idx = 0
    /\ sample_idx = 0
    /\ interval = 0
    /\ other_group = BlocB
    /\ error = ""
    /\ mode_idx = 0
    /\ queue = <<>>
    /\ results = <<>>
    /\ rows = <<>>
    /\ plan_rows = {}
    /\ call = <<>>
    /\ result = 0
    /\ duplicate_indx = 0
    /\ profile_log = <<>>

NextElections ==
    \/ simulate_elections_begin
    \/ simulate_elections_list
    \/ simulate_elections_task
    \/ simulate_elections_write
    \/ summarize_results

InitElections == InitElectionsWith({{}})

SpecElections == InitElections /\ [][NextElections]_vars

(***************************************************************************)
(* The elections stage over directories in which the file notes.csv, which *)
(* is no profile, may lie next to the profiles.                            *)
(***************************************************************************)
InitIsolation == InitElectionsWith({{PoolSize}})

SpecIsolation == InitIsolation /\ [][NextElections]_vars

(***************************************************************************)
(* district_generator.generate_districts                                   *)
(***************************************************************************)
\* district_generator.py:36
output_dir == Concat(<< <<"o","u","t","p","u","t","s","/","d","i","s","t","r","i","c","t","s","/">>, config.run_name, <<"_","c","h","a","i","n","_","o","u","t">> >>)

\* district_generator.py:77
output_path(num_districts) ==
    Join(output_dir, Concat(<< config.run_name, <<"_">>, DecStr(num_districts),
                               <<"_","d","i","s","t","r","i","c","t","s",".","j","s","o","n","l">> >>))

\* one chain per configured district count, each written as a trace of
\* chain_length entries
generate_districts ==
    /\ pc = "gd_start"
    /\ \E start \in 0..1 :
          files' =
            LET nums == { config.district_configs[i].num_districts :
                            i \in 1..Len(config.district_configs) }
                traces == [p \in { Abs(output_path(n)) : n \in nums } |->
                             LET n == CHOOSE m \in nums : Abs(output_path(m)) = p
                             IN  [entries |->
                                    [k \in 1..config.chain_length |->
                                       [assignment |->
                                          TraceEntries(config.chain_length, n, start)[k]]]]]
            IN  traces @@ files
    /\ dirs' = dirs \cup {Abs(output_dir)}
    /\ pc' = "run_start"
    /\ UNCHANGED <<config, population, impl, error>>
    /\ UNCHANGED <<settings_vars, election_vars, summary_vars, profile_vars, pure_vars>>

(***************************************************************************)
(* profile_generator.process_settings_file and                             *)
(* profile_generator.generate_profiles                                     *)
(***************************************************************************)
\* a settings folder that is not grouped by run name
profiles_settings_folder_flat(district_num) ==
    Concat(<< <<"o","u","t","p","u","t","s","/","s","e","t","t","i","n","g","s","/">>, DecStr(district_num) >>)

\* profile_generator.py:55, as pathlib prints it
profiles_settings_folder(district_num) ==
    Concat(<< <<"o","u","t","p","u","t","s","/","s","e","t","t","i","n","g","s","/">>, config.run_name, <<"_","s","e","t","t","i","n","g","s","/">>,
              DecStr(district_num) >>)

\* the keys process_settings_file subscripts (lines 28-34)
settings_keys ==
    {"num_voters", "slate_to_candidates", "bloc_proportions", "cohesion_parameters",
     "alphas"}

\* a subscript of a missing key raises KeyError
process_settings_file_raises(fs, settings_file) ==
    ~(settings_keys \subseteq DOMAIN fs[Abs(settings_file)])

\* the ballots the external generator draws for a task; the model fixes the
\* draw per task
drawn_profile(mode_index, rep, task) ==
    [ranking |-> Rankings[((mode_index + rep + task) % PoolSize) + 1]]

\* the district counts generate_profiles visits (line 52)
district_nums == << config.district_configs[1].num_districts >>

\* the loops `for duplicate_indx`, `for district_num`, `for mode` move on;
\* after the last replicate generate_profiles returns
NextFanOut ==
    IF mode_idx < Len(Modes)
    THEN /\ mode_idx' = mode_idx + 1
         /\ duplicate_indx' = duplicate_indx
         /\ pc' = "gp_list"
    ELSE IF duplicate_indx + 1 < config.num_reps
    THEN /\ mode_idx' = 1
         /\ duplicate_indx' = duplicate_indx + 1
         /\ pc' = "gp_list"
    ELSE /\ mode_idx' = mode_idx
         /\ duplicate_indx' = duplicate_indx
         /\ pc' = "gp_done"

\* read the configuration, enter the loop over the replicates
generate_profiles_begin ==
    /\ pc = "gp_start"
    /\ IF config.num_reps <= 0
       THEN pc' = "gp_done" /\ UNCHANGED <<mode_idx, duplicate_indx>>
       ELSE pc' = "gp_list" /\ mode_idx' = 1 /\ duplicate_indx' = 0
    /\ UNCHANGED <<config, population, files, dirs, impl, error, fs_order, queue,
                   results, profile_log>>
    /\ UNCHANGED <<settings_vars, summary_vars, pure_vars>>

\* the head of one (replicate, mode) iteration: create the profile folder,
\* list the settings files, hand them to the worker pool
generate_profiles_list ==
    /\ pc = "gp_list"
    /\ dirs' = dirs \cup {Abs(profile_folder(Modes[mode_idx], district_nums[1]))}
    /\ queue' = GlobList(files, profiles_settings_folder(district_nums[1]), <<"*",".","j","s","o","n">>)
    /\ results' = <<>>
    /\ pc' = "gp_run"
    /\ UNCHANGED <<config, population, files, impl, error, fs_order, mode_idx>>
    /\ UNCHANGED <<settings_vars, summary_vars, profile_vars, pure_vars>>

\* one task of the worker pool finishes: process_settings_file has written
\* its profile, or has raised; Parallel(...) re-raises in the caller, where
\* nothing catches it
generate_profiles_task ==
    /\ pc = "gp_run"
    /\ \E i \in (1..Len(queue)) \ (DOMAIN results) :
          IF process_settings_file_raises(files, queue[i])
          THEN /\ pc' = "failed"
               /\ error' = "KeyError"
               /\ UNCHANGED <<files, results, profile_log>>
          ELSE LET out == output_file(queue[i],
                                      profile_folder(Modes[mode_idx], district_nums[1]),
                                      duplicate_indx)
               IN  /\ files' = WriteFile(files, out,
                                         drawn_profile(mode_idx, duplicate_indx, i))
                   /\ profile_log' =
                        [p \in (DOMAIN profile_log) \cup {Abs(out)} |->
                            (IF p \in DOMAIN profile_log THEN profile_log[p] ELSE 0)
                            + (IF p = Abs(out) THEN 1 ELSE 0)]
                   /\ results' = [j \in (DOMAIN results) \cup {i} |-> None]
                   /\ UNCHANGED <<pc, error>>
    /\ UNCHANGED <<config, population, dirs, impl, fs_order, mode_idx, queue,
                   duplicate_indx>>
    /\ UNCHANGED <<settings_vars, summary_vars, pure_vars>>

\* every task of the fan-out has finished: on to the next iteration
generate_profiles_join ==
    /\ pc = "gp_run"
    /\ DOMAIN results = 1..Len(queue)
    /\ NextFanOut
    /\ queue' = <<>>
    /\ results' = <<>>
    /\ UNCHANGED <<config, population, files, dirs, impl, error, fs_order, profile_log>>
    /\ UNCHANGED <<settings_vars, summary_vars, pure_vars>>

(***************************************************************************)
(* run.py: the four stages called one after the other. An exception of a   *)
(* stage ends the script: no statement after it is executed.               *)
(***************************************************************************)
\* a driver that calls generate_profiles while generate_settings is still in
\* its loop
run_overlapping ==
    /\ \/ pc = "run_start" /\ pc' = "gs_start"
       \/ pc \in {"gs_loop", "done"} /\ pc' = "gp_start"
       \/ pc = "gp_done"   /\ pc' = "se_start"
    /\ UNCHANGED <<config, population, files, dirs, impl, error>>
    /\ UNCHANGED <<settings_vars, election_vars, summary_vars, profile_vars, pure_vars>>

\* the statement the interpreter executes next, once the previous call has
\* returned
run ==
    /\ \/ pc = "run_start" /\ pc' = "gs_start"    \* line 14
       \/ pc = "done"      /\ pc' = "gp_start"    \* line 16
       \/ pc = "gp_done"   /\ pc' = "se_start"    \* line 18
    /\ UNCHANGED <<config, population, files, dirs, impl, error>>
    /\ UNCHANGED <<settings_vars, election_vars, summary_vars, profile_vars, pure_vars>>

\* what an earlier use of the draft settings stage has left in the settings
\* directory of two districts
LeftSettings == {"plan", "one", "none"}

InitPipeline ==
    /\ config \in { MakeConfig(<<"n","c">>, cl, 1, reps, DefaultTurnout, dcs) :
                      cl \in 0..1, reps \in 1..MaxReps, dcs \in DistrictConfigLists }
    /\ population = CHOOSE t \in PopData : TRUE
    /\ impl = "run"
    /\ fs_order \in {"asc", "desc"}
    /\ \E scenario \in LeftSettings :
       \E settings \in {SettingsOnDisk("draft", scenario)} :
          files = settings.files
    /\ dirs = {}
    /\ pc \in {"gd_start", "run_start"}
    /\ dc_idx = 0
    /\ sample_idx = 0
    /\ interval = 0
    /\ other_group = <<>>
    /\ written = {}
    /\ error = ""
    /\ mode_idx = 0
    /\ queue = <<>>
    /\ results = <<>>
    /\ rows = <<>>
    /\ plan_rows = {}
    /\ call = <<>>
    /\ result = 0
    /\ duplicate_indx = 0
    /\ profile_log = <<>>

NextPipeline ==
    \/ generate_districts
    \/ run
    \/ generate_settings_begin
    \/ generate_settings_sample
    \/ generate_settings_end
    \/ generate_profiles_begin
    \/ generate_profiles_list
    \/ generate_profiles_task
    \/ generate_profiles_join
    \/ simulate_elections_begin
    \/ simulate_elections_list
    \/ simulate_elections_task
    \/ simulate_elections_write
    \/ summarize_results

SpecPipeline == InitPipeline /\ [][NextPipeline]_vars

(***************************************************************************)
(* helpers.count_focal_winners called on its own.                          *)
(***************************************************************************)
Candidates == { <<"A","1">>, <<"B","2">>, <<"A","3">>, <<"A","B","1">> }

FocalGroups == { <<"A">>, <<"B">>, <<"A","B">> }

Slates ==
    { <<>>,
      (<<"A">> :> << <<"A","1">>, <<"A","3">> >>),
      (<<"A">> :> << <<"A","1">> >>) @@ (<<"B">> :> << <<"B","2">> >>),
      (<<"A">> :> << <<"A","1">> >>) @@ (<<"B">> :> << <<"B","2">>, <<"A","3">> >>),
      (<<"A","B">> :> << <<"A","B","1">>, <<"B","2">> >>) }

WinnerLists == UNION { [1..n -> Candidates] : n \in 0..MaxWinners }

count_focal_winners_call ==
    /\ pc = "idle"
    /\ \E winners \in WinnerLists, focal_group \in FocalGroups, slate \in Slates :
          /\ call' = [winners |-> winners, focal_group |-> focal_group, slate |-> slate]
          /\ result' = count_focal_winners(winners, focal_group, slate)
    /\ pc' = "returned"
    /\ UNCHANGED <<config, population, files, dirs, impl, error>>
    /\ UNCHANGED <<settings_vars, election_vars, summary_vars>>
    /\ UNCHANGED profile_vars

InitFocal ==
    /\ config = MakeConfig(<<"n","c">>, 1, 1, 1, DefaultTurnout, << [num_districts |-> 2, winners |-> 1] >>)
    /\ population = CHOOSE t \in PopData : TRUE
    /\ files = <<>>
    /\ dirs = {}
    /\ impl = "run"
    /\ pc = "idle"
    /\ dc_idx = 0
    /\ sample_idx = 0
    /\ interval = 0
    /\ other_group = BlocB
    /\ written = {}
    /\ error = ""
    /\ fs_order = "asc"
    /\ mode_idx = 0
    /\ queue = <<>>
    /\ results = <<>>
    /\ rows = <<>>
    /\ plan_rows = {}
    /\ call = <<>>
    /\ result = 0
    /\ duplicate_indx = 0
    /\ profile_log = <<>>

NextFocal == count_focal_winners_call

SpecFocal == InitFocal /\ [][NextFocal]_vars

(***************************************************************************)
(* The reference statistic of summarize_results on shares, turnout rates   *)
(* and cohesion parameters given in tenths.                                *)
(***************************************************************************)
SupportTurnouts ==
    { [b \in {BlocA, BlocB} |-> IF b = BlocA THEN Tenth(ta) ELSE Tenth(tb)] :
        ta \in 1..10, tb \in 1..10 }

\* cohesion[b][c]: the support of bloc b for the candidates of bloc c
SupportCohesions ==
    { [b \in {BlocA, BlocB} |->
         [c \in {BlocA, BlocB} |->
            IF b = BlocA THEN (IF c = BlocA THEN Tenth(aa) ELSE Tenth(10 - aa))
            ELSE (IF c = BlocA THEN Tenth(ba) ELSE Tenth(10 - ba))]] :
        aa \in 0..10, ba \in 0..10 }

summarize_results_support ==
    /\ pc = "idle"
    /\ \E k \in 0..10, turnout \in SupportTurnouts, cohesion \in SupportCohesions :
       \E pt \in {iprop_turnout(Tenth(k), turnout, config.focal_group,
                                non_focal_group(turnout, config.focal_group))} :
          /\ call' = [iprop |-> Tenth(k), turnout |-> turnout, cohesion |-> cohesion]
          /\ result' = [iprop_turnout |-> pt,
                        combined_support |->
                            i_cs_turnout(pt, cohesion, config.focal_group,
                                         non_focal_group(turnout, config.focal_group))]
    /\ pc' = "returned"
    /\ UNCHANGED <<config, population, files, dirs, impl, error>>
    /\ UNCHANGED <<settings_vars, election_vars, summary_vars>>
    /\ UNCHANGED profile_vars

NextSupport == summarize_results_support

SpecSupport == InitFocal /\ [][NextSupport]_vars

(***************************************************************************)
(* helpers.find_settings_file alone, on settings directories that hold up  *)
(* to MaxSettings files or do not exist.                                   *)
(***************************************************************************)
MaxSettings == 2

LookupDir == settings_dir("run", [num_districts |-> 2])

\* the files a settings directory may hold: five in the generator's naming,
\* among them plans of three and of four digits, and one in the naming of
\* step 1
LookupPool ==
    { Abs(Join(LookupDir, SettingsFileName(2, 0, 0))),
      Abs(Join(LookupDir, SettingsFileName(2, 0, 1))),
      Abs(Join(LookupDir, SettingsFileName(2, 1, 0))),
      Abs(Join(LookupDir, SettingsFileName(2, 100, 0))),
      Abs(Join(LookupDir, SettingsFileName(2, 1000, 0))),
      Abs(Join(LookupDir, ExactSettingsName(0, 0))) }

LookupPlans == {None, 0, 1, 100, 1000}
LookupDistricts == {None, 0, 1}

find_settings_file_call ==
    /\ pc = "idle"
    /\ \E plan \in LookupPlans, district \in LookupDistricts :
          /\ call' = [plan |-> plan, district |-> district]
          /\ result' = find_settings_file(files, dirs, LookupDir, plan, district)
    /\ pc' = "returned"
    /\ UNCHANGED <<config, population, files, dirs, impl, error>>
    /\ UNCHANGED <<settings_vars, election_vars, summary_vars>>
    /\ UNCHANGED profile_vars

InitLookup ==
    /\ config = MakeConfig(<<"n","c">>, 1, 1, 1, DefaultTurnout, << [num_districts |-> 2, winners |-> 1] >>)
    /\ population = CHOOSE t \in PopData : TRUE
    /\ \E pool \in {LookupPool} :
       \E held \in { S \in SUBSET pool : Cardinality(S) <= MaxSettings } :
          files = [p \in held |-> [settings |-> TRUE]]
    /\ dirs \in { {}, {Abs(LookupDir)} }
    /\ impl = "run"
    /\ pc = "idle"
    /\ dc_idx = 0
    /\ sample_idx = 0
    /\ interval = 0
    /\ other_group = BlocB
    /\ written = {}
    /\ error = ""
    /\ fs_order = "asc"
    /\ mode_idx = 0
    /\ queue = <<>>
    /\ results = <<>>
    /\ rows = <<>>
    /\ plan_rows = {}
    /\ call = <<>>
    /\ result = 0
    /\ duplicate_indx = 0
    /\ profile_log = <<>>

NextLookup == find_settings_file_call

SpecLookup == InitLookup /\ [][NextLookup]_vars

(***************************************************************************)
(* The stages' reading of config["district_configs"].  A JSON value is a   *)
(* list of items or not; an item is an object, given by its (key, value)   *)
(* pairs in order, or not.                                                 *)
(***************************************************************************)
MaxForms == 2

JObject(pairs) == [isdict |-> TRUE, pairs |-> pairs]
JScalar == [isdict |-> FALSE, pairs |-> <<>>]
JArray(items) == [islist |-> TRUE, items |-> items]
JNotArray == [islist |-> FALSE, items |-> <<>>]

\* `key in item`, item[key]
HasKey(item, key) == \E i \in 1..Len(item.pairs) : item.pairs[i][1] = key
GetKey(item, key) == item.pairs[CHOOSE i \in 1..Len(item.pairs) : item.pairs[i][1] = key][2]

\* int(k) of a text accepts decimal digits
IsDecimal(s) == Len(s) > 0 /\ \A i \in 1..Len(s) : IsDigit(s[i])

DistrictConfig(num_districts, winners) ==
    [num_districts |-> num_districts, winners |-> winners]

\* helpers.parse_district_configs, the loop over raw from its k-th item on
RECURSIVE parse_items(_, _, _)
parse_items(items, k, parsed) ==
    IF k > Len(items) THEN [error |-> "", configs |-> parsed]
    ELSE LET item == items[k]
         IN  IF item.isdict /\ HasKey(item, <<"n","u","m","_","d","i","s","t","r","i","c","t","s">>) /\ HasKey(item, <<"w","i","n","n","e","r","s">>)
             THEN parse_items(items, k + 1,
                     Append(parsed, DistrictConfig(GetKey(item, <<"n","u","m","_","d","i","s","t","r","i","c","t","s">>),
                                                   GetKey(item, <<"w","i","n","n","e","r","s">>))))
             ELSE IF item.isdict /\ Len(item.pairs) = 1
             THEN IF IsDecimal(item.pairs[1][1])
                  THEN parse_items(items, k + 1,
                          Append(parsed,
                                 DistrictConfig(IntOf(item.pairs[1][1], 1,
                                                      Len(item.pairs[1][1]) + 1),
                                                item.pairs[1][2])))
                  ELSE [error |-> "ValueError", configs |-> <<>>]
             ELSE [error |-> "ValueError", configs |-> <<>>]

parse_district_configs(raw) ==
    IF ~raw.islist THEN [error |-> "ValueError", configs |-> <<>>]
    ELSE parse_items(raw.items, 1, <<>>)

\* item['num_districts'] on an item of the list
SubscriptNumDistricts(item) ==
    IF ~item.isdict THEN [error |-> "TypeError", value |-> None]
    ELSE IF ~HasKey(item, <<"n","u","m","_","d","i","s","t","r","i","c","t","s">>) THEN [error |-> "KeyError", value |-> None]
    ELSE [error |-> "", value |-> GetKey(item, <<"n","u","m","_","d","i","s","t","r","i","c","t","s">>)]

\* [config['district_configs'][0]['num_districts']]
first_district_num(raw) ==
    IF ~raw.islist THEN [error |-> "KeyError", configs |-> <<>>]
    ELSE IF raw.items = <<>> THEN [error |-> "IndexError", configs |-> <<>>]
    ELSE LET got == SubscriptNumDistricts(raw.items[1])
         IN  IF got.error # "" THEN [error |-> got.error, configs |-> <<>>]
             ELSE [error |-> "", configs |-> << DistrictConfig(got.value, None) >>]

\* [d_config['num_districts'] for d_config in config['district_configs']];
\* iterating an object yields its keys, which are texts
RECURSIVE each_district_num(_, _, _)
each_district_num(items, k, nums) ==
    IF k > Len(items) THEN [error |-> "", configs |-> nums]
    ELSE LET got == SubscriptNumDistricts(items[k])
         IN  IF got.error # "" THEN [error |-> got.error, configs |-> <<>>]
             ELSE each_district_num(items, k + 1,
                                    Append(nums, DistrictConfig(got.value, None)))

all_district_nums(raw) ==
    IF ~raw.islist THEN [error |-> "TypeError", configs |-> <<>>]
    ELSE each_district_num(raw.items, 1, <<>>)

\* the stages that read district_configs, in the order run.py calls them
Stages == {"settings", "profiles", "elections", "summary"}

\* what a stage makes of config["district_configs"]
read_district_configs(stage, im, raw) ==
    CASE stage = "settings" ->
             IF im = "run" THEN first_district_num(raw) ELSE all_district_nums(raw)
      [] stage = "profiles" -> first_district_num(raw)
      [] OTHER -> parse_district_configs(raw)

\* the value of district_configs in the configuration file
FormItems ==
    { JObject(<< << <<"n","u","m","_","d","i","s","t","r","i","c","t","s">>, n >>, << <<"w","i","n","n","e","r","s">>, w >> >>) :
        n \in 2..3, w \in 1..MaxWinners }
    \cup { JObject(<< << DecStr(n), w >> >>) : n \in 2..3, w \in 1..MaxWinners }
    \cup { JScalar, JObject(<< << <<"s","e","a","t","s">>, 1 >> >>),
           JObject(<< << <<"d","i","s","t","r","i","c","t","s">>, 2 >>, << <<"s","e","a","t","s">>, 1 >> >>) }

RawForms ==
    { JNotArray } \cup { JArray(items) :
                           items \in UNION { [1..n -> FormItems] : n \in 0..MaxForms } }

generate_settings_read ==
    /\ pc = "idle"
    /\ call' = [stage |-> "settings"]
    /\ result' = read_district_configs("settings", impl, config.district_configs)
    /\ pc' = "returned"
    /\ UNCHANGED <<config, population, files, dirs, impl, error>>
    /\ UNCHANGED <<settings_vars, election_vars, summary_vars>>
    /\ UNCHANGED profile_vars

generate_profiles_read ==
    /\ pc = "idle"
    /\ call' = [stage |-> "profiles"]
    /\ result' = read_district_configs("profiles", impl, config.district_configs)
    /\ pc' = "returned"
    /\ UNCHANGED <<config, population, files, dirs, impl, error>>
    /\ UNCHANGED <<settings_vars, election_vars, summary_vars>>
    /\ UNCHANGED profile_vars

simulate_elections_read ==
    /\ pc = "idle"
    /\ call' = [stage |-> "elections"]
    /\ result' = read_district_configs("elections", impl, config.district_configs)
    /\ pc' = "returned"
    /\ UNCHANGED <<config, population, files, dirs, impl, error>>
    /\ UNCHANGED <<settings_vars, election_vars, summary_vars>>
    /\ UNCHANGED profile_vars

summarize_results_read ==
    /\ pc = "idle"
    /\ call' = [stage |-> "summary"]
    /\ result' = read_district_configs("summary", impl, config.district_configs)
    /\ pc' = "returned"
    /\ UNCHANGED <<config, population, files, dirs, impl, error>>
    /\ UNCHANGED <<settings_vars, election_vars, summary_vars>>
    /\ UNCHANGED profile_vars

InitForms ==
    /\ config \in { MakeConfig(<<"n","c">>, 1, 1, 1, DefaultTurnout, raw) : raw \in RawForms }
    /\ population = CHOOSE t \in PopData : TRUE
    /\ files = <<>>
    /\ dirs = {}
    /\ impl \in Impls
    /\ pc = "idle"
    /\ dc_idx = 0
    /\ sample_idx = 0
    /\ interval = 0
    /\ other_group = BlocB
    /\ written = {}
    /\ error = ""
    /\ fs_order = "asc"
    /\ mode_idx = 0
    /\ queue = <<>>
    /\ results = <<>>
    /\ rows = <<>>
    /\ plan_rows = {}
    /\ call = <<>>
    /\ result = 0
    /\ duplicate_indx = 0
    /\ profile_log = <<>>

NextForms ==
    \/ generate_settings_read
    \/ generate_profiles_read
    \/ simulate_elections_read
    \/ summarize_results_read

SpecForms == InitForms /\ [][NextForms]_vars

(***************************************************************************)
(* Claims about the settings stage and the naming scheme.                  *)
(***************************************************************************)
ModeSet == { Modes[i] : i \in 1..Len(Modes) }

\* the subsampling parameters are in range
StrideApplies ==
    /\ 1 <= config.num_subsamples
    /\ config.num_subsamples <= config.chain_length

\* C1: in a run with subsampling parameters in range,
\* every settings path generate_settings writes for plan i and district d
\* decodes to (i, d, unknown replicate), and the profile path
\* process_settings_file derives from it for replicate r decodes to (i, d, r),
\* whatever the run name and the district count.
NamingRoundTrip ==
    StrideApplies => \A w \in written :
        /\ parse_plan_district_rep_from_path(w.path)
              = [plan |-> w.plan, district |-> w.district, rep |-> None]
        /\ \A r \in 0..(config.num_reps - 1) : \A m \in ModeSet :
              parse_plan_district_rep_from_path(
                  output_file(w.path, profile_folder(m, w.district_num), r))
              = [plan |-> w.plan, district |-> w.district, rep |-> r]

\* the positions selected for chain_length 1000 and num_subsamples 5
StrideExample == { i \in 0..999 : IsSelected(i, subsample_interval(1000, 5)) }

\* C4: with 1 <= num_subsamples <= chain_length, settings are written for
\* exactly the trace positions that are multiples of
\* chain_length // num_subsamples (all of them once the stage is done, and no
\* other position at any time); for chain_length 1000 and num_subsamples 5
\* the positions are {0, 200, 400, 600, 800}.
SubsampleStride ==
    /\ StrideApplies =>
         LET stride == config.chain_length \div config.num_subsamples
             first  == config.district_configs[1].num_districts
         IN  /\ \A w \in written :
                   /\ w.plan \in 0..(config.chain_length - 1)
                   /\ w.plan % stride = 0
                   /\ FileExists(files, w.path)
             /\ pc = "done" =>
                   \A i \in 0..(config.chain_length - 1) :
                       (i % stride = 0) =>
                           \E w \in written : w.plan = i /\ w.district_num = first
    /\ StrideExample = {0, 200, 400, 600, 800}

\* a finished run that skipped a position and selected a later one
SubsampleStrideWitness ==
    /\ StrideApplies
    /\ pc = "done"
    /\ config.chain_length \div config.num_subsamples = 2
    /\ \E w \in written : w.plan = 2
    /\ \A w \in written : w.plan # 1

\* C5: the adjusted proportion written for a district with raw proportion
\* p = ivap/vap in [0,1] and turnout rates in (0,1] equals
\* p*tf / (p*tf + (1-p)*to), lies in [0,1], is 0 at p = 0 and 1 at p = 1.
TurnoutAdjustment ==
    \A w \in written :
        LET adj == files[Abs(w.path)].bloc_proportions[config.focal_group]
            tf  == config.turnout[config.focal_group]
            to  == config.turnout[other_group]
        IN  /\ adj[2] # 0
            /\ REq(adj, <<w.ivap * tf, w.ivap * tf + (w.vap - w.ivap) * to>>)
            /\ RLeq(<<0, 1>>, adj)
            /\ RLeq(adj, <<1, 1>>)
            /\ (w.ivap = 0 => REq(adj, <<0, 1>>))
            /\ (w.ivap = w.vap => REq(adj, <<1, 1>>))

\* districts with p = 0 and with p = 1 were written under unequal turnout rates
TurnoutAdjustmentWitness ==
    /\ config.turnout[BlocA] # config.turnout[BlocB]
    /\ \E w \in written : w.ivap = 0
    /\ \E w \in written : w.ivap = w.vap
    /\ \E w \in written : w.ivap # 0 /\ w.ivap # w.vap

\* C6: in a run with subsampling parameters in range,
\* every settings file holds the seven fields, the first four equal to
\* the configuration's, total_ivap and total_vap the scalar district sums.
SettingsSchema ==
    StrideApplies => \A w \in written :
        LET s == files[Abs(w.path)]
        IN  /\ DOMAIN s = {"num_voters", "slate_to_candidates", "cohesion_parameters",
                           "alphas", "bloc_proportions", "total_ivap", "total_vap"}
            /\ s.num_voters = config.num_voters
            /\ s.slate_to_candidates = config.slate_to_candidates
            /\ s.cohesion_parameters = config.cohesion_parameters
            /\ s.alphas = config.alphas
            /\ s.total_ivap = JNum(w.ivap)
            /\ s.total_vap = JNum(w.vap)

\* C10: with num_subsamples <= 0 or num_subsamples > chain_length the stage
\* fails and writes no settings artifact.
SubsamplerConfigError ==
    (config.num_subsamples <= 0 \/ config.num_subsamples > config.chain_length) =>
        /\ written = {}
        /\ pc # "done"
(***************************************************************************)
(* Claims about the election fan-out and the aggregator.                   *)
(***************************************************************************)
\* the winner-set artifacts on disk
WinnerSetPaths == { p \in DOMAIN files : HasPrefix(p, 1, Abs(out_root) \o <<"/">>) }

\* C2: every winner-set artifact holds profile_files and winners of equal
\* length with winners[i] the tabulation of profile_files[i], in whatever
\* order the tasks finished, and every summary row of index i is built from
\* winners[i] and the identity decoded from profile_files[i].
IndexAlignment ==
    /\ \A p \in WinnerSetPaths :
          /\ {"profile_files", "winners"} \subseteq DOMAIN files[p]
          /\ Len(files[p].winners) = Len(files[p].profile_files)
          /\ \A i \in 1..Len(files[p].winners) :
                files[p].winners[i] =
                    process_profile(files, files[p].profile_files[i],
                                    files[p].winners_per_district)
    /\ pc = "failed" => error \notin {"TypeError", "IndexError"}
    /\ \A k \in 1..Len(rows) :
          \E p \in WinnerSetPaths :
             LET i == rows[k].simulation_index + 1
             IN  /\ i <= Len(files[p].winners)
                 /\ files[p].voter_mode = rows[k].mode
                 /\ files[p].winners_per_district = rows[k].seats_per_district
                 /\ rows[k].focal_seats =
                       count_focal_winners(files[p].winners[i], config.focal_group,
                                           config.slate_to_candidates)
                 /\ parse_plan_district_rep_from_path(files[p].profile_files[i])
                       = [plan |-> rows[k].plan, district |-> rows[k].district_id,
                          rep |-> rows[k].rep]

\* C3: no summary row exists for a simulation whose profile path decodes to
\* an unknown plan or district or for which no settings file matches the
\* decoded identity; no row is joined to another identity's settings file.
UnresolvedIdentityDropped ==
    \A k \in 1..Len(rows) :
        /\ rows[k].plan # None
        /\ rows[k].district_id # None
        /\ rows[k].settings_path # NoFile
        /\ parse_plan_district_rep_from_path(rows[k].settings_path).plan = rows[k].plan
        /\ parse_plan_district_rep_from_path(rows[k].settings_path).district
              = rows[k].district_id

\* the grouping key of the plan-level table
SummaryKey(r) ==
    [ plan |-> r.plan, num_districts |-> r.num_districts,
      seats_per_district |-> r.seats_per_district, mode |-> r.mode, rep |-> r.rep ]

RECURSIVE FocalSeatsOf(_, _)
FocalSeatsOf(key, k) ==
    IF k = 0 THEN 0
    ELSE FocalSeatsOf(key, k - 1) +
         (IF SummaryKey(rows[k]) = key THEN rows[k].focal_seats ELSE 0)

\* C7: the plan-level table has one row per distinct (plan, district count,
\* winners per district, voter model, replicate) among the summary rows, its
\* focal_seats is the sum over the summary rows with that key, and every
\* summary row contributes to exactly one plan-level row.
PlanLevelSummary ==
    pc = "sum_done" =>
        /\ \A k \in 1..Len(rows) :
              Cardinality({ g \in plan_rows : SummaryKey(g.key) = SummaryKey(rows[k]) }) = 1
        /\ \A g \in plan_rows :
              /\ \E k \in 1..Len(rows) : SummaryKey(rows[k]) = SummaryKey(g.key)
              /\ g.focal_seats = FocalSeatsOf(SummaryKey(g.key), Len(rows))

\* C9: every summary row carries the total_vap and the total_ivap of the
\* settings file matched for its plan and district.
JoinedSettingsTotals ==
    \A k \in 1..Len(rows) :
        rows[k].settings_path # NoFile =>
            /\ rows[k].total_vap = files[Abs(rows[k].settings_path)].total_vap
            /\ rows[k].total_ivap = files[Abs(rows[k].settings_path)].total_ivap

\* the number of positions of winners that hold a focal candidate
FocalPositions(winners, focal_group, slate) ==
    { i \in 1..Len(winners) :
        \/ \E j \in 1..Len(SlateGet(slate, focal_group)) :
              SlateGet(slate, focal_group)[j] = winners[i]
        \/ Len(focal_group) = 1 /\ winners[i][1] = focal_group[1] }

FocalExample ==
    count_focal_winners(<< <<"A","1">>, <<"B","2">>, <<"A","3">> >>, <<"A">>, (<<"A">> :> << <<"A","1">>, <<"A","3">> >>))

DegenerateStride ==
    (config.num_subsamples >= 1
        /\ subsample_interval(config.chain_length, config.num_subsamples) = 0) =>
        /\ error # "ZeroDivisionError"
        /\ pc = "done" =>
              \A k \in 1..Len(DistrictNums(impl)) :
                  \A idx \in 0..(config.chain_length - 1) :
                      \E w \in written :
                          w.district_num = DistrictNums(impl)[k] /\ w.plan = idx

\* the district of a written artifact has a vanishing turnout-adjustment
\* denominator: it has no population at all, or both terms are zero
DenominatorVanishes(w) ==
    \/ w.vap = 0
    \/ /\ w.ivap * config.turnout[config.focal_group] = 0
       /\ (w.vap - w.ivap) * config.turnout[other_group] = 0

\* C12: when both terms of the turnout-adjustment denominator vanish, no
\* division by zero is performed and the adjusted proportion written for the
\* district is 0.
VanishingDenominator ==
    /\ (error = "ZeroDivisionError") => (config.num_subsamples = 0 \/ interval = 0)
    /\ \A w \in written :
          DenominatorVanishes(w) =>
              LET adj == files[Abs(w.path)].bloc_proportions[config.focal_group]
              IN  adj[1] = 0 /\ adj[2] # 0

\* C13: a turnout map that does not hold exactly two blocs makes the stage
\* fail with a configuration error before any settings artifact is written;
\* with exactly two blocs the other bloc is the one bloc of the turnout map
\* that differs from the focal bloc.
TwoBlocRequirement ==
    /\ (Cardinality(DOMAIN config.turnout) # 2 /\ pc # "gs_start") =>
          pc = "failed" /\ error = "ValueError" /\ written = {}
    /\ (Cardinality(DOMAIN config.turnout) = 2 /\ pc \in {"gs_loop", "done"}) =>
          /\ other_group \in DOMAIN config.turnout
          /\ other_group # config.focal_group

\* the assignment of the trace entry an artifact was derived from
AssignmentOf(w) ==
    files[Abs(path_to_districting(impl, w.district_num))].entries[w.plan + 1].assignment

\* the population of interest and the population of the units that the
\* artifact's trace entry assigns to the artifact's district
OwnShare(w) ==
    LET units == { k \in 1..Len(population) : AssignmentOf(w)[k] = w.district }
        RECURSIVE total(_, _)
        total(col, S) ==
            IF S = {} THEN 0
            ELSE LET k == CHOOSE x \in S : TRUE
                 IN  population[k][col] + total(col, S \ {k})
    IN  <<total("ivap", units), total("vap", units)>>

\* p*t[focal] / (p*t[focal] + (1-p)*t[other]) as a fraction of integers
AdjustedShare(w) ==
    LET p  == OwnShare(w)
        tf == config.turnout[config.focal_group]
        to == config.turnout[other_group]
    IN  <<p[1] * tf, p[1] * tf + (p[2] - p[1]) * to>>

\* C14: in every settings artifact bloc_proportions has exactly the two keys
\* focal and other; the focal value is the adjusted proportion of the
\* artifact's own district, the other value is one minus it, and the two
\* values sum to 1.
BlocProportions ==
    \A w \in written :
        LET bp == files[Abs(w.path)].bloc_proportions
        IN  /\ DOMAIN bp = {config.focal_group, other_group}
            /\ Cardinality(DOMAIN bp) = 2
            /\ REq(bp[config.focal_group], AdjustedShare(w))
            /\ REq(bp[other_group],
                   <<AdjustedShare(w)[2] - AdjustedShare(w)[1], AdjustedShare(w)[2]>>)
            /\ REq(RAdd(Lowest(bp[config.focal_group]), Lowest(bp[other_group])),
                   <<1, 1>>)

\* two artifacts of one plan whose districts differ in their proportions,
\* under turnout rates that differ between the blocs
BlocProportionsWitness ==
    /\ pc = "done"
    /\ config.turnout[config.focal_group] # config.turnout[other_group]
    /\ \E w1 \in written : \E w2 \in written :
          /\ w1.plan = w2.plan /\ w1.district_num = w2.district_num
          /\ w1.plan > 0
          /\ w1.district # w2.district
          /\ ~REq(files[Abs(w1.path)].bloc_proportions[config.focal_group],
                  files[Abs(w2.path)].bloc_proportions[config.focal_group])
          /\ ~RIsZero(files[Abs(w1.path)].bloc_proportions[other_group])
          /\ ~RIsZero(files[Abs(w1.path)].bloc_proportions[config.focal_group])

(***************************************************************************)
(* The elections stage: listing order, absent directories.                 *)
(***************************************************************************)
\* the entries of a list in lexicographic path order
InPathOrder(list) == list = SortedTexts({ list[i] : i \in 1..Len(list) })

\* C15: the list of profile files that is tabulated and recorded for a
\* (district count, voter model) is in lexicographic path order whatever the
\* order in which the file system enumerates the directory.
DeterministicProfileOrder ==
    /\ pc = "se_run" => InPathOrder(queue)
    /\ \A m \in 1..Len(Modes) : \A k \in 1..Len(config.district_configs) :
          LET p == results_path(impl, Modes[m], config.district_configs[k])
          IN  (FileExists(files, p) /\ "profile_files" \in DOMAIN files[Abs(p)]) =>
                  InPathOrder(files[Abs(p)].profile_files)

\* the directory that holds the profiles of a (voter model, district count)
ProfileDir(mode, dc) == Join(profile_root(impl, mode), DecStr(dc.num_districts))

\* C16: when the profile directory of a voter model and district count is
\* absent the stage does not fail, creates the model's output directory,
\* writes no winner-set artifact for that configuration and goes on to the
\* end.
MissingProfileDirectory ==
    /\ pc \in {"se_list", "se_run", "se_done"} => error = ""
    /\ pc = "se_done" =>
          \A m \in 1..Len(Modes) : \A k \in 1..Len(config.district_configs) :
              ~DirExists(files, {}, ProfileDir(Modes[m], config.district_configs[k])) =>
                  /\ Abs(Join(out_root, ModeText(Modes[m]))) \in dirs
                  /\ ~FileExists(files, results_path(impl, Modes[m],
                                                     config.district_configs[k]))

\* the profiles of a (voter model, district count) that the tabulator can read
ReadableProfiles(mode, dc) ==
    { p \in GlobDir(files, ProfileDir(mode, dc), <<"*",".","c","s","v">>) :
        ~process_profile_raises(files, p) }

\* C17: a tabulation that fails for one profile does not end the stage: the
\* failure stays inside the task, and when the stage is done every
\* configuration that has readable profiles has its winner-set artifact with
\* one winner list for each of them.
TaskFailureIsolation ==
    /\ error # "TaskError"
    /\ pc = "se_done" =>
          \A m \in 1..Len(Modes) : \A k \in 1..Len(config.district_configs) :
              LET dc == config.district_configs[k]
                  p == results_path(impl, Modes[m], dc)
              IN  ReadableProfiles(Modes[m], dc) # {} =>
                      /\ FileExists(files, p)
                      /\ Len(files[Abs(p)].winners) >=
                             Cardinality(ReadableProfiles(Modes[m], dc))

(***************************************************************************)
(* The forms of district_configs.                                          *)
(***************************************************************************)
\* an item in the form {"num_districts": n, "winners": w}
IsNewForm(item) ==
    /\ item.isdict
    /\ { item.pairs[i][1] : i \in 1..Len(item.pairs) } = { <<"n","u","m","_","d","i","s","t","r","i","c","t","s">>, <<"w","i","n","n","e","r","s">> }

\* an item in the form {n: w}
IsLegacyForm(item) ==
    item.isdict /\ Len(item.pairs) = 1 /\ IsDecimal(item.pairs[1][1])

\* the (num_districts, winners) pair an item of either form stands for
FormConfig(item) ==
    IF IsNewForm(item)
    THEN <<GetKey(item, <<"n","u","m","_","d","i","s","t","r","i","c","t","s">>), GetKey(item, <<"w","i","n","n","e","r","s">>)>>
    ELSE <<IntOf(item.pairs[1][1], 1, Len(item.pairs[1][1]) + 1), item.pairs[1][2]>>

AcceptedForm(raw) ==
    /\ raw.islist
    /\ \A i \in 1..Len(raw.items) : IsNewForm(raw.items[i]) \/ IsLegacyForm(raw.items[i])

\* C18: every stage that reads district_configs accepts a list of items in
\* either form and obtains the configurations the items stand for (the
\* district counts, and the winners where the stage reads them); whatever is
\* not such a list is rejected with a configuration error.
DistrictConfigForms ==
    pc = "returned" =>
        LET raw == config.district_configs
        IN  IF AcceptedForm(raw)
            THEN /\ result.error = ""
                 /\ Len(result.configs) = Len(raw.items)
                 /\ \A i \in 1..Len(raw.items) :
                       /\ result.configs[i].num_districts = FormConfig(raw.items[i])[1]
                       /\ call.stage \in {"elections", "summary"} =>
                             result.configs[i].winners = FormConfig(raw.items[i])[2]
            ELSE result.error = "ValueError"

(***************************************************************************)
(* The reference statistics of the summary.                                *)
(***************************************************************************)
\* a fraction rounded to three decimals, in thousandths
Round3(a) == (2000 * a[1] + a[2]) \div (2 * a[2])

\* iprop = 0.4, turnout = {A: 0.8, B: 0.6},
\* cohesion = {A: {A: 0.9, B: 0.1}, B: {A: 0.2, B: 0.8}}
SupportExample ==
    [ iprop    |-> Tenth(4),
      turnout  |-> (BlocA :> Tenth(8)) @@ (BlocB :> Tenth(6)),
      cohesion |-> (BlocA :> ((BlocA :> Tenth(9)) @@ (BlocB :> Tenth(1))))
                   @@ (BlocB :> ((BlocA :> Tenth(2)) @@ (BlocB :> Tenth(8)))) ]

\* C19: iprop_turnout = iprop*t[focal] / (iprop*t[focal] + (1-iprop)*t[other])
\* and combined_support = iprop_turnout*cohesion[focal][focal]
\* + (1-iprop_turnout)*cohesion[other][focal]; for the example inputs
\* iprop_turnout is 0.471 to three decimals and combined_support is within
\* one thousandth of 0.530.
CombinedSupport ==
    pc = "returned" =>
        LET p   == call.iprop[1]
            tf  == call.turnout[BlocA][1]
            to  == call.turnout[BlocB][1]
            cff == call.cohesion[BlocA][BlocA][1]
            cof == call.cohesion[BlocB][BlocA][1]
            pt  == result.iprop_turnout
            cs  == result.combined_support
        IN  /\ pt[2] > 0 /\ cs[2] > 0
            /\ pt[1] * (p * tf + (10 - p) * to) = pt[2] * (p * tf)
            /\ cs[1] * (10 * pt[2]) = cs[2] * (pt[1] * cff + (pt[2] - pt[1]) * cof)
            /\ call = SupportExample =>
                  /\ Round3(pt) = 471
                  /\ Round3(cs) \in 529..531

\* the example's call has returned, with iprop_turnout = 8/17 and
\* combined_support = 9/17
CombinedSupportWitness ==
    /\ pc = "returned"
    /\ call = SupportExample
    /\ result.iprop_turnout = <<8, 17>>
    /\ result.combined_support = <<9, 17>>

\* the columns of a summary row that identify it, hold its outcome or are
\* joined from its settings file
RowColumns ==
    { "run_name", "plan", "num_districts", "seats_per_district", "election_method",
      "mode", "district_id", "rep", "simulation_index", "focal_group", "focal_seats",
      "total_vap", "total_ivap", "settings_path" }

\* the focal population share of the whole geography
FocalShare ==
    LET all == 1..Len(population)
        RECURSIVE total(_, _)
        total(col, S) ==
            IF S = {} THEN 0
            ELSE LET k == CHOOSE x \in S : TRUE
                 IN  population[k][col] + total(col, S \ {k})
    IN  <<total("ivap", all), total("vap", all)>>

\* C20: every summary row carries two reference statistics next to its other
\* columns, the combined support and the focal population share, each with
\* the value computed once from the whole geography and the configuration.
RunLevelConstants ==
    \A k \in 1..Len(rows) :
        /\ "combined_support" \in DOMAIN rows[k]
        /\ REq(rows[k].combined_support, combined_support(config, population))
        /\ \E col \in (DOMAIN rows[k]) \ (RowColumns \cup {"combined_support"}) :
              REq(rows[k][col], FocalShare)

(***************************************************************************)
(* Aggregation and selection in the settings stage.                        *)
(***************************************************************************)
\* the artifacts written for the same district count and plan as w
SamePlan(w) ==
    { v \in written : v.district_num = w.district_num /\ v.plan = w.plan }

\* C21: for a selected plan one settings artifact is written per district id
\* occurring in the assignment, from the sums of both population columns over
\* the units assigned to that district, with raw proportion
\* interest_total / population_total; populations [10,10,10,10], interest
\* populations [8,2,8,2] and assignment [0,0,1,1] yield exactly two artifacts,
\* each with raw proportion 0.5.
PerDistrictAggregation ==
    \A w \in written :
        /\ { v.district : v \in SamePlan(w) }
              = { AssignmentOf(w)[k] : k \in 1..Len(AssignmentOf(w)) }
        /\ \A v \in SamePlan(w) : v.district = w.district => v = w
        /\ <<w.ivap, w.vap>> = OwnShare(w)
        /\ files[Abs(w.path)].total_vap = JNum(OwnShare(w)[2])
        /\ w.vap > 0
        /\ (/\ AssignmentOf(w) = <<0, 0, 1, 1>>
            /\ [k \in 1..4 |-> population[k].vap] = <<10, 10, 10, 10>>
            /\ [k \in 1..4 |-> population[k].ivap] = <<8, 2, 8, 2>>) =>
               /\ Cardinality(SamePlan(w)) = 2
               /\ \A v \in SamePlan(w) : 2 * v.ivap = v.vap

\* the example's plan has been written: two artifacts, 10 of 20 each
PerDistrictAggregationWitness ==
    \E w \in written :
        /\ AssignmentOf(w) = <<0, 0, 1, 1>>
        /\ [k \in 1..4 |-> population[k].vap] = <<10, 10, 10, 10>>
        /\ [k \in 1..4 |-> population[k].ivap] = <<8, 2, 8, 2>>
        /\ Cardinality(SamePlan(w)) = 2
        /\ w.ivap = 10 /\ w.vap = 20
        /\ files[Abs(w.path)].total_vap = JNum(20)

\* C26: with 1 <= num_subsamples <= chain_length, the number of plans
\* selected from a trace of chain_length entries equals num_subsamples.
SubsampleCount ==
    (StrideApplies /\ pc = "done") =>
        Cardinality({ w.plan : w \in { v \in written :
            v.district_num = config.district_configs[1].num_districts } })
          = config.num_subsamples

(***************************************************************************)
(* The lookup of settings files.                                           *)
(***************************************************************************)
\* the files of the settings directory whose names match a pattern
MatchesOf(pat) ==
    { p \in DOMAIN files : DirName(p) = Abs(LookupDir) /\ GlobMatch(pat, 1, BaseName(p), 1) }

\* the first of a set of paths in sorted order
LeastPath(S) == CHOOSE x \in S : \A y \in S \ {x} : TextLess(x, y)

\* the settings directory exists
LookupDirExists == Abs(LookupDir) \in dirs \/ DOMAIN files # {}

\* C22: when the lookup for (plan i, district d) in a directory of files
\* written by generate_settings returns a file, it is the file written for
\* plan i and district d.
SettingsJoinCorrect ==
    (/\ pc = "returned"
     /\ call.plan # None /\ call.district # None
     /\ Abs(Join(LookupDir, ExactSettingsName(0, 0))) \notin DOMAIN files
     /\ result # NoFile) =>
        Abs(result) = Abs(Join(LookupDir, SettingsFileName(2, call.plan, call.district)))

AbsSet(paths) == { Abs(paths[i]) : i \in 1..Len(paths) }

\* the locations a stage writes and the locations its consumers read,
\* for one configuration and one voter model
SameLocations(dc, mode) ==
    /\ Abs(path_to_districting(impl, dc.num_districts)) = Abs(output_path(dc.num_districts))
    /\ Abs(profiles_settings_folder(dc.num_districts))
          = Abs(settings_folder(impl, dc.num_districts))
    /\ Abs(settings_dir(impl, dc)) = Abs(settings_folder(impl, dc.num_districts))
    /\ Abs(Join(profile_root(impl, mode), DecStr(dc.num_districts)))
          = Abs(profile_folder(mode, dc.num_districts))
    /\ DirName(Abs(results_path(impl, mode, dc))) = Abs(Join(results_dir, ModeText(mode)))
    /\ fields_read \subseteq DOMAIN winner_set(impl, mode, dc, <<>>, <<>>)

AllConfigurationsProcessed ==
    pc = "done" =>
        \A i \in 1..Len(config.district_configs) :
           LET n == config.district_configs[i].num_districts
           IN  (/\ FileExists(files, path_to_districting(impl, n))
                /\ files[Abs(path_to_districting(impl, n))].entries # <<>>)
                  => \E w \in written : w.district_num = n

(***************************************************************************)
(* The fan-out of generate_profiles.                                       *)
(***************************************************************************)
\* the settings files of the district count generate_profiles visits
SettingsFilesOf(n) ==
    { p \in DOMAIN files : /\ DirName(p) = Abs(profiles_settings_folder(n))
                           /\ GlobMatch(<<"*",".","j","s","o","n">>, 1, BaseName(p), 1) }

\* the triples (settings file, voter model, replicate) of the fan-out
Triples ==
    { <<f, m, r>> : f \in SettingsFilesOf(district_nums[1]),
                    m \in 1..Len(Modes), r \in 0..(config.num_reps - 1) }

\* the profile path of a triple
ProfilePathOf(t) ==
    Abs(output_file(t[1], profile_folder(Modes[t[2]], district_nums[1]), t[3]))

\* generate_profiles has returned or has been ended by an exception
ProfilesEnded ==
    \/ pc \in {"gp_done", "se_start", "se_list", "se_run", "se_done", "sum_done"}
    \/ pc = "failed" /\ mode_idx >= 1 /\ Abs(out_root) \notin dirs

\* C27: distinct triples (settings file, voter model, replicate) have
\* distinct profile paths, no profile path is written twice in a run, and
\* when generate_profiles has ended exactly the profile paths of the triples
\* have been written, each once.
ProfileFanOutCoverage ==
    /\ \A s, t \in Triples : s # t => ProfilePathOf(s) # ProfilePathOf(t)
    /\ \A p \in DOMAIN profile_log : profile_log[p] = 1
    /\ ProfilesEnded => DOMAIN profile_log = { ProfilePathOf(t) : t \in Triples }

(***************************************************************************)
(* The order of the stages in run.py.                                      *)
(***************************************************************************)
\* the stage a position belongs to: 1 settings, 2 profiles, 3 elections,
\* 4 summary; 0 before the first call
StageOf(p) ==
    CASE p \in {"gd_start", "run_start"} -> 0
      [] p \in {"gs_start", "gs_loop", "done"} -> 1
      [] p \in {"gp_start", "gp_list", "gp_run", "gp_done"} -> 2
      [] p \in {"se_start", "se_list", "se_run", "se_done"} -> 3
      [] p = "sum_done" -> 4
      [] OTHER -> 5

\* the positions at which a call of a stage has returned
Returned == {"run_start", "done", "gp_done", "se_done"}

\* the files below a directory, with their content
Under(fs, dir) ==
    [p \in { q \in DOMAIN fs : HasPrefix(q, 1, Abs(dir) \o <<"/">>) } |-> fs[p]]

\* C28: the stages run in the order settings, profiles, elections, summary:
\* a step stays in its stage or enters the next one, and enters it only when
\* the call of the previous stage has returned; what a stage has written
\* below its output directory is not written again once a later stage runs;
\* after an exception of a stage nothing more happens.
StageOrdering ==
    [][ /\ pc = "failed" => (pc' = "failed" /\ files' = files)
        /\ (pc # "failed" /\ pc' # "failed") =>
              /\ StageOf(pc') \in {StageOf(pc), StageOf(pc) + 1}
              /\ StageOf(pc') = StageOf(pc) + 1 => pc \in Returned
        /\ (pc # "failed" /\ StageOf(pc) >= 2) =>
              Under(files', <<"o","u","t","p","u","t","s","/","s","e","t","t","i","n","g","s">>) = Under(files, <<"o","u","t","p","u","t","s","/","s","e","t","t","i","n","g","s">>)
        /\ (pc # "failed" /\ StageOf(pc) >= 3) =>
              Under(files', <<"o","u","t","p","u","t","s","/","p","r","o","f","i","l","e","s">>) = Under(files, <<"o","u","t","p","u","t","s","/","p","r","o","f","i","l","e","s">>)
        /\ (pc # "failed" /\ StageOf(pc) >= 4) =>
              Under(files', out_root) = Under(files, out_root)
      ]_vars

\* the profile stage has failed after the settings stage wrote its files,
\* and the election stage has not created its output directory
StageOrderingWitness ==
    /\ pc = "failed"
    /\ error = "KeyError"
    /\ written # {}
    /\ Abs(out_root) \notin dirs

(***************************************************************************)
(* Winners of other blocs.                                                 *)
(***************************************************************************)
\* the candidates a slate lists for a bloc
ListedFor(slate, group) ==
    { SlateGet(slate, group)[i] : i \in 1..Len(SlateGet(slate, group)) }

\* the candidates listed for a bloc other than the focal one and not for the
\* focal bloc
OnlyNonFocal(slate, focal_group) ==
    (UNION { ListedFor(slate, g) : g \in (DOMAIN slate) \ {focal_group} })
        \ ListedFor(slate, focal_group)

\* C29: count_focal_winners counts no winner that is listed for a non-focal
\* bloc and not for the focal bloc: the count is at most the number of the
\* other winners, and 0 for a winner list made only of such candidates.
NoCrossBlocCounting ==
    pc = "returned" =>
        result <= Cardinality({ i \in 1..Len(call.winners) :
                                  call.winners[i] \notin
                                      OnlyNonFocal(call.slate, call.focal_group) })

(***************************************************************************)
(* The election method of a summary row.                                   *)
(***************************************************************************)
\* C30: the election_method of every summary row names the method that
\* tabulated the row's simulation: plurality for one winner per district,
\* the transferable-vote method for more than one.
RecordedElectionMethod ==
    \A k \in 1..Len(rows) :
        rows[k].election_method = tabulator(rows[k].seats_per_district)
====
